---------------------------- MODULE Spec2Model ----------------------------
(***************************************************************************)
(* Points-based collection curation and reconciliation                     *)
(* (ohmzi/Tautulli_Curated_Plex_Collection).                               *)
(*                                                                         *)
(* The module models                                                       *)
(*   - the ScoreStore accessors _get_points / _set_points,                 *)
(*   - build_final_items_with_points (CandidateSetBuilder),                *)
(*   - refresh_collection_with_points (diff-based reconciler) with the     *)
(*     older and the newer _apply_custom_order,                            *)
(*   - apply_collection_state_to_plex (teardown / rebuild),                *)
(*   - the run_pipeline variants and the refresher entry point,            *)
(* against a library collection and a ScoreStore file that other           *)
(* processes may change between two calls of a run.                        *)
(***************************************************************************)
EXTENDS Integers, Sequences, FiniteSets, TLC

(***************************************************************************)
(* Bounds of the model.                                                    *)
(***************************************************************************)
\* largest integer stored in a seeded ScoreStore value
MaxN == 2
\* curation / refresher runs in one behaviour
MaxRuns == 3
\* changes made to the collection by other processes in one behaviour
MaxEnv == 1
\* length of the list of library items matched in one run
MaxMatched == 1
\* length of the rating_keys list handed to apply_collection_state_to_plex
MaxKeys == 2

(***************************************************************************)
(* The library.  Rating keys 1..3 are movies of the library section, 4 is  *)
(* an item of another type (a clip), 5 resolves to nothing.                *)
(***************************************************************************)
MovieKeys == {1, 2, 3}
ClipKey == 4
GoneKey == 5
Keys == MovieKeys \cup {ClipKey, GoneKey}

\* section.fetchItem(int(rating_key)).type, "none" when the fetch raises
ItemType(k) ==
  IF k \in MovieKeys THEN "movie" ELSE IF k = ClipKey THEN "clip" ELSE "none"

\* rank of (item.title or "").lower(); items 2 and 3 have titles that differ
\* in case only
TitleLower(k) == IF k = 1 THEN 2 ELSE 1

(***************************************************************************)
(* JSON values of the ScoreStore.  A scalar is [t, n]; an object carries   *)
(* the fields points, score and title, a missing field being Absent.       *)
(***************************************************************************)
Absent == [t |-> "absent", n |-> 0]
Null == [t |-> "null", n |-> 0]
IntV(n) == [t |-> "int", n |-> n]
\* a string int() parses, such as "2"
NumStr(n) == [t |-> "numstr", n |-> n]
\* a non-empty string int() rejects, such as "abc"
BadStr == [t |-> "str", n |-> 0]
EmptyStr == [t |-> "emptystr", n |-> 0]
\* a float with a fractional part whose truncation is n
FloatV(n) == [t |-> "float", n |-> n]
\* a list or nested object with n elements
ListV(n) == [t |-> "list", n |-> n]
Obj(p, s, ti) == [t |-> "obj", points |-> p, score |-> s, title |-> ti]

IsObj(v) == v.t = "obj"

\* Python truthiness of a scalar (the operand of "v or 0")
Truthy(s) ==
  CASE s.t \in {"int", "list"} -> s.n # 0
    [] s.t \in {"float", "numstr", "str"} -> TRUE
    [] OTHER -> FALSE

Ret(v) == [raised |-> FALSE, val |-> v]
Raise == [raised |-> TRUE, val |-> 0]

\* int(x) for a truthy scalar x
PyInt(s) ==
  CASE s.t \in {"int", "float", "numstr"} -> Ret(s.n)
    [] OTHER -> Raise

\* int(x or 0)
IntOrZero(s) == IF Truthy(s) THEN PyInt(s) ELSE Ret(0)

\* _get_points(points_data, key): [raised, val]
GetPoints(m, k) ==
  LET v == m[k] IN
  IF IsObj(v)
    THEN IF v.points # Absent THEN IntOrZero(v.points)
         ELSE IF v.score # Absent THEN IntOrZero(v.score)
         ELSE Ret(0)
    ELSE IF v = Absent THEN Ret(0)
         ELSE IF IntOrZero(v).raised THEN Ret(0) ELSE IntOrZero(v)

\* a write that replaces whatever the key held by the bare integer
SetPointsOverwrites(m, k, p) == [m EXCEPT ![k] = IntV(p)]

\* _set_points(points_data, key, new_points)
SetPoints(m, k, p) ==
  IF IsObj(m[k])
    THEN [m EXCEPT ![k] = [m[k] EXCEPT !.points = IntV(p)]]
    ELSE [m EXCEPT ![k] = IntV(p)]


(***************************************************************************)
(* Sequences.                                                              *)
(***************************************************************************)
SeqToSet(s) == {s[i] : i \in DOMAIN s}

\* the sequences of distinct elements of S, of length at most n
RECURSIVE DistinctSeqs(_, _)
DistinctSeqs(S, n) ==
  IF n = 0 \/ S = {} THEN {<<>>}
  ELSE {<<>>} \cup
       UNION {{<<x>> \o t : t \in DistinctSeqs(S \ {x}, n - 1)} : x \in S}

\* the orders random.shuffle can leave a list in
Shuffles(s) ==
  {t \in DistinctSeqs(SeqToSet(s), Len(s)) : Len(t) = Len(s)}

\* the sequences over S of length at most n, repetitions allowed
RECURSIVE SeqsUpTo(_, _)
SeqsUpTo(S, n) ==
  IF n = 0 THEN {<<>>}
  ELSE {<<>>} \cup UNION {{<<x>> \o t : t \in SeqsUpTo(S, n - 1)} : x \in S}

Without(s, x) == SelectSeq(s, LAMBDA y : y # x)

EmptyMap == [k \in Keys |-> Absent]
KeysOf(m) == {k \in Keys : m[k] # Absent}

(***************************************************************************)
(* build_final_items_with_points (CandidateSetBuilder).                    *)
(***************************************************************************)
\* insertion order of by_key: existing items, then the new keys of this run
RECURSIVE AppendNew(_, _)
AppendNew(acc, s) ==
  IF s = <<>> THEN acc
  ELSE AppendNew(IF Head(s) \in SeqToSet(acc) THEN acc ELSE Append(acc, Head(s)),
                 Tail(s))

ByKey(existing_items_, plex_movies_this_run) ==
  AppendNew(<<>>, existing_items_ \o plex_movies_this_run)

\* new keys initialised at 1 in place of 0
EnsurePointsAtOne(m, keys) ==
  [k \in Keys |-> IF k \in keys /\ m[k] = Absent THEN IntV(1) ELSE m[k]]

\* "ensure points exist": _set_points(points_data, k, 0) for every new key
EnsurePoints(m, keys) ==
  [k \in Keys |-> IF k \in keys /\ m[k] = Absent THEN IntV(0) ELSE m[k]]

\* "boost this run": one increment per entry of suggested_now_keys
RECURSIVE BoostPoints(_, _)
BoostPoints(m, s) ==
  IF s = <<>> THEN [raised |-> FALSE, m |-> m]
  ELSE LET g == GetPoints(m, Head(s)) IN
       IF g.raised THEN [raised |-> TRUE, m |-> m]
       ELSE BoostPoints(SetPoints(m, Head(s), g.val + 1), Tail(s))

\* sort_key(a) >= sort_key(b) for the tuples (points, lowercased title)
SortKeyGE(m, a, b) ==
  LET pa == GetPoints(m, a).val
      pb == GetPoints(m, b).val
  IN pa > pb \/ (pa = pb /\ TitleLower(a) >= TitleLower(b))

\* list.sort(key=sort_key, reverse=True): descending, equal keys keep their order
RECURSIVE InsertDesc(_, _, _)
InsertDesc(m, s, x) ==
  IF s = <<>> THEN <<x>>
  ELSE IF SortKeyGE(m, Head(s), x) THEN <<Head(s)>> \o InsertDesc(m, Tail(s), x)
  ELSE <<x>> \o s

RECURSIVE SortItems(_, _, _)
SortItems(m, acc, s) ==
  IF s = <<>> THEN acc ELSE SortItems(m, InsertDesc(m, acc, Head(s)), Tail(s))

\* a build that keeps only the top max_points items ("all_items[:max_points]")
BuildFinalItemsCapped(existing_items_, plex_movies_this_run, m, max_points) ==
  LET by_key == ByKey(existing_items_, plex_movies_this_run)
      b == BoostPoints(EnsurePoints(m, SeqToSet(by_key)), plex_movies_this_run)
      bad == b.raised \/ \E k \in SeqToSet(by_key) : GetPoints(b.m, k).raised
      all_items == SortItems(b.m, <<>>, by_key)
  IN [raised |-> bad,
      final_items |-> IF bad THEN <<>>
                      ELSE SubSeq(all_items, 1,
                                  IF max_points < Len(all_items) THEN max_points
                                  ELSE Len(all_items)),
      points_data |-> b.m,
      suggested_now_keys |-> plex_movies_this_run]

\* [raised, final_items, points_data, suggested_now_keys]
BuildFinalItems(existing_items_, plex_movies_this_run, m, max_points) ==
  LET by_key == ByKey(existing_items_, plex_movies_this_run)
      b == BoostPoints(EnsurePoints(m, SeqToSet(by_key)), plex_movies_this_run)
      bad == b.raised \/ \E k \in SeqToSet(by_key) : GetPoints(b.m, k).raised
  IN [raised |-> bad,
      final_items |-> IF bad THEN <<>> ELSE SortItems(b.m, <<>>, by_key),
      points_data |-> b.m,
      suggested_now_keys |-> plex_movies_this_run]

(***************************************************************************)
(* The library's collection calls.  A call is logged as                    *)
(* [op, items, after, ok]; a collection is a sequence of distinct keys.    *)
(***************************************************************************)
Call(op, items, after, ok) ==
  [op |-> op, items |-> items, after |-> after, ok |-> ok]

\* collection.removeItems(items)
RemoveItems(c, items) == SelectSeq(c, LAMBDA y : y \notin SeqToSet(items))

\* collection.addItems(items): items already present stay where they are
AddItems(c, items) == AppendNew(c, items)

\* PUT .../items/{x}/move
MoveHead(c, x) == <<x>> \o Without(c, x)

\* PUT .../items/{x}/move?after={a}
RECURSIVE InsertAfter(_, _, _)
InsertAfter(c, x, a) ==
  IF c = <<>> THEN <<>>
  ELSE IF Head(c) = a THEN <<a, x>> \o Tail(c)
  ELSE <<Head(c)>> \o InsertAfter(Tail(c), x, a)

MoveAfter(c, x, a) == IF x = a THEN c ELSE InsertAfter(Without(c, x), x, a)

\* the library rejects a move of an item, or after an anchor, that is not a
\* member of the collection
MoveRejected(exists, c, x, a) ==
  ~exists \/ x \notin SeqToSet(c) \/ (a # 0 /\ a \notin SeqToSet(c))

(***************************************************************************)
(* _apply_custom_order.  The loop state is                                 *)
(* [coll, calls, cci, failed_moves, successful_moves, prev_id, raised];    *)
(* prev_id = 0 stands for None.  F is the set of items whose move request  *)
(* raises.                                                                 *)
(***************************************************************************)
Failed(x, reason) == [item_id |-> x, reason |-> reason]

\* a failing request that is logged but not appended to failed_moves
NewMoveStepDropsFailure(st, x, exists, cci, F) ==
  IF x \notin cci
    THEN [st EXCEPT !.failed_moves = Append(@, Failed(x, "not in collection"))]
    ELSE LET anchor == IF st.prev_id # 0 /\ st.prev_id \in cci THEN st.prev_id ELSE 0
             ok == x \notin F /\ ~MoveRejected(exists, st.coll, x, anchor)
         IN IF ok
              THEN [st EXCEPT
                      !.coll = IF anchor = 0 THEN MoveHead(@, x)
                               ELSE MoveAfter(@, x, anchor),
                      !.calls = Append(@, Call("move", <<x>>, anchor, TRUE)),
                      !.prev_id = x,
                      !.successful_moves = @ + 1]
              ELSE [st EXCEPT
                      !.calls = Append(@, Call("move", <<x>>, anchor, FALSE)),
                      !.prev_id = anchor]

\* a loop that sends every item to the head
NewMoveStepAlwaysHead(st, x, exists, cci, F) ==
  IF x \notin cci
    THEN [st EXCEPT !.failed_moves = Append(@, Failed(x, "not in collection"))]
    ELSE LET ok == x \notin F /\ ~MoveRejected(exists, st.coll, x, 0)
         IN IF ok
              THEN [st EXCEPT
                      !.coll = MoveHead(@, x),
                      !.calls = Append(@, Call("move", <<x>>, 0, TRUE)),
                      !.prev_id = x,
                      !.successful_moves = @ + 1]
              ELSE [st EXCEPT
                      !.calls = Append(@, Call("move", <<x>>, 0, FALSE)),
                      !.failed_moves = Append(@, Failed(x, "error"))]

\* a loop that anchors the next move on the item it just tried, moved or not
NewMoveStepAnchorsFailure(st, x, exists, cci, F) ==
  IF x \notin cci
    THEN [st EXCEPT !.failed_moves = Append(@, Failed(x, "not in collection"))]
    ELSE LET anchor == IF st.prev_id # 0 /\ st.prev_id \in cci THEN st.prev_id ELSE 0
             ok == x \notin F /\ ~MoveRejected(exists, st.coll, x, anchor)
         IN IF ok
              THEN [st EXCEPT
                      !.coll = IF anchor = 0 THEN MoveHead(@, x)
                               ELSE MoveAfter(@, x, anchor),
                      !.calls = Append(@, Call("move", <<x>>, anchor, TRUE)),
                      !.prev_id = x,
                      !.successful_moves = @ + 1]
              ELSE [st EXCEPT
                      !.calls = Append(@, Call("move", <<x>>, anchor, FALSE)),
                      !.prev_id = x,
                      !.failed_moves = Append(@, Failed(x, "error"))]

\* newer variant: one iteration of the for loop
NewMoveStep(st, x, exists, cci, F) ==
  IF x \notin cci
    THEN [st EXCEPT !.failed_moves = Append(@, Failed(x, "not in collection"))]
    ELSE LET anchor == IF st.prev_id # 0 /\ st.prev_id \in cci THEN st.prev_id ELSE 0
             ok == x \notin F /\ ~MoveRejected(exists, st.coll, x, anchor)
         IN IF ok
              THEN [st EXCEPT
                      !.coll = IF anchor = 0 THEN MoveHead(@, x)
                               ELSE MoveAfter(@, x, anchor),
                      !.calls = Append(@, Call("move", <<x>>, anchor, TRUE)),
                      !.prev_id = x,
                      !.successful_moves = @ + 1]
              ELSE [st EXCEPT
                      !.calls = Append(@, Call("move", <<x>>, anchor, FALSE)),
                      !.prev_id = anchor,
                      !.failed_moves = Append(@, Failed(x, "error"))]

RECURSIVE NewMoveLoop(_, _, _, _, _)
NewMoveLoop(st, items, exists, cci, F) ==
  IF items = <<>> THEN st
  ELSE NewMoveLoop(NewMoveStep(st, Head(items), exists, cci, F),
                   Tail(items), exists, cci, F)

\* older variant: one iteration; a failing request propagates
OldMoveStep(st, x, exists, F) ==
  LET ok == x \notin F /\ ~MoveRejected(exists, st.coll, x, st.prev_id)
  IN IF ok
       THEN [st EXCEPT
               !.coll = IF st.prev_id = 0 THEN MoveHead(@, x)
                        ELSE MoveAfter(@, x, st.prev_id),
               !.calls = Append(@, Call("move", <<x>>, st.prev_id, TRUE)),
               !.prev_id = x,
               !.successful_moves = @ + 1]
       ELSE [st EXCEPT
               !.calls = Append(@, Call("move", <<x>>, st.prev_id, FALSE)),
               !.raised = TRUE]

RECURSIVE OldMoveLoop(_, _, _, _)
OldMoveLoop(st, items, exists, F) ==
  IF items = <<>> \/ st.raised THEN st
  ELSE OldMoveLoop(OldMoveStep(st, Head(items), exists, F), Tail(items), exists, F)

OrderState(c, cs, cci) ==
  [coll |-> c, calls |-> cs, cci |-> cci, failed_moves |-> <<>>,
   successful_moves |-> 0, prev_id |-> 0, raised |-> FALSE]

\* newer _apply_custom_order(plex, collection, ordered_items); handle is FALSE
\* when collection is None
ApplyCustomOrderNew(c, cs, exists, handle, ordered_items, sortOk, itemsOk, F) ==
  IF ~(handle /\ exists /\ sortOk)
    THEN OrderState(c, IF handle THEN Append(cs, Call("sort", <<>>, 0, FALSE)) ELSE cs,
                    {})
    ELSE LET cci == IF itemsOk THEN SeqToSet(c) ELSE {} IN
         NewMoveLoop(OrderState(c, Append(cs, Call("sort", <<>>, 0, TRUE)), cci),
                     ordered_items, exists, cci, F)

\* older _apply_custom_order(plex, collection, ordered_items)
ApplyCustomOrderOld(c, cs, exists, handle, ordered_items, sortOk, F) ==
  IF ~(handle /\ exists /\ sortOk)
    THEN OrderState(c, IF handle THEN Append(cs, Call("sort", <<>>, 0, FALSE)) ELSE cs,
                    {})
    ELSE OldMoveLoop(OrderState(c, Append(cs, Call("sort", <<>>, 0, TRUE)), {}),
                     ordered_items, exists, F)

(***************************************************************************)
(* TMDbCache: the cache file and the identifier lookups.                   *)
(***************************************************************************)
MaxLoads == 2

\* titles handed to get_tmdb_id; 0 is the empty string
Titles == {1, 2}
EmptyTitle == 0
\* identifiers the title search can answer with
TmdbIds == {11, 12}

NoIds == [t \in Titles |-> Absent]

\* what json.loads finds in the cache file: the value under "id_cache", the
\* value under "ids" (Absent: no such key, Null: JSON null, else a mapping)
\* and whether there is a "rating_cache" key
Raw(id_cache, ids_, has_rating_cache) ==
  [id_cache |-> id_cache, ids |-> ids_, rating_cache |-> has_rating_cache]

\* a JSON object of title -> id
Dict(m) == [t |-> "dict", m |-> m]

\* the file _save writes: {"id_cache": ..., "rating_cache": ...}
Payload(m) == Raw(Dict(m), Absent, TRUE)

\* raw.get(key, {}) or {}
OrEmpty(v) == IF v \in {Absent, Null} THEN NoIds ELSE v.m

\* a loader that reads the "ids" key only
LoadIdsNewFormatOnly(raw) == OrEmpty(raw.ids)

\* _load, the value given to data["ids"]
LoadIds(raw) ==
  IF raw.id_cache # Absent \/ raw.rating_cache
  THEN OrEmpty(raw.id_cache)
  ELSE OrEmpty(raw.ids)

\* Path.write_text: the file is replaced, left as it was (open failed) or
\* left truncated (the write failed)
WriteOutcomes == {"ok", "open_failed", "write_failed"}

CacheFileAfter(file, m, outcome) ==
  CASE outcome = "ok" -> [state |-> "ok", raw |-> Payload(m)]
    [] outcome = "write_failed" -> [state |-> "corrupt", raw |-> Payload(NoIds)]
    [] OTHER -> file

NoCacheFile == [state |-> "absent", raw |-> Payload(NoIds)]

NoGet == [called |-> FALSE, title |-> 0, hit |-> FALSE, network |-> FALSE,
          val |-> Null, raised |-> FALSE, gen |-> 0, stored |-> Absent,
          persisted |-> Absent]

(***************************************************************************)
(* The filtering variant (tautulli_watched_movies.py).  Ratings are in     *)
(* tenths: 80 is 8.0.                                                      *)
(***************************************************************************)
NoTmdbIds == [k \in MovieKeys |-> Absent]
NoRatings == [k \in MovieKeys |-> -1]

\* vote_average as fetch_tmdb_rating can return it; 0 also stands for a
\* failed request
Ratings == {0, 70, 80, 90}

\* what fetch_tmdb_id answers per title: nothing, the item's own id, or for
\* title 2 the id of item 1 (two titles resolving to one id)
ResolveMaps ==
  {r \in [MovieKeys -> {Null} \cup {IntV(i) : i \in MovieKeys}] :
     \A k \in MovieKeys : r[k] \in {Null, IntV(k)} \/ (k = 2 /\ r[k] = IntV(1))}

\* load_points of the filtering variant: bare integers become records
LegacyLoadPoints(fs, fd) ==
  IF fs = "ok"
  THEN [k \in Keys |-> IF fd[k].t = "int" THEN Obj(fd[k], Absent, BadStr)
                        ELSE fd[k]]
  ELSE EmptyMap

\* points_data[key].get("points", 0)
LegacyPoints(v) == IF v.points = Absent THEN 0 ELSE v.points.n

\* a filter that keeps a rating of exactly 8.0
KeptFromRating8(pts, rating) == pts >= 5 \/ rating >= 80

\* "if pts >= 5 or rating > 8"
Kept(pts, rating) == pts >= 5 \/ rating > 80

\* an increment in place of the decrement
NewPointsRaised(old_points) == old_points + 1

\* a decrement without the floor
NewPointsUnfloored(old_points) == old_points - 1

\* new_points = max(old_points - 1, 0)
NewPoints(old_points) == IF old_points - 1 > 0 THEN old_points - 1 ELSE 0

\* step 3: the score update and the rating lookup of each candidate in turn
RECURSIVE ScoreCandidates(_, _, _, _, _)
ScoreCandidates(m, acc, candidates, idc, rtc) ==
  IF candidates = <<>> THEN [points_data |-> m, candidate_tuples |-> acc]
  ELSE LET movie == Head(candidates)
           tmdb_id == idc[movie]
       IN IF tmdb_id \in {Absent, Null}
          THEN ScoreCandidates(m, acc, Tail(candidates), idc, rtc)
          ELSE LET key == tmdb_id.n
                   old_points == LegacyPoints(m[key])
                   pts == IF m[key] = Absent THEN 10
                          ELSE NewPoints(old_points)
                   entry == IF m[key] = Absent THEN Obj(IntV(10), Absent, BadStr)
                            ELSE [m[key] EXCEPT !.points = IntV(pts),
                                                !.title = BadStr]
               IN ScoreCandidates([m EXCEPT ![key] = entry],
                                  Append(acc, [movie |-> movie, key |-> key,
                                               pts |-> pts, rating |-> rtc[key]]),
                                  Tail(candidates), idc, rtc)

\* step 4: the filter
FilterCandidates(tuples) == SelectSeq(tuples, LAMBDA x : Kept(x.pts, x.rating))

\* sort(key=(rating, points), reverse=True): stable for equal keys
LegacyKeyGE(a, b) ==
  a.rating > b.rating \/ (a.rating = b.rating /\ a.pts >= b.pts)

RECURSIVE LegacyInsert(_, _)
LegacyInsert(s, x) ==
  IF s = <<>> THEN <<x>>
  ELSE IF LegacyKeyGE(Head(s), x) THEN <<Head(s)>> \o LegacyInsert(Tail(s), x)
  ELSE <<x>> \o s

RECURSIVE LegacySort(_, _)
LegacySort(acc, s) ==
  IF s = <<>> THEN acc ELSE LegacySort(LegacyInsert(acc, Head(s)), Tail(s))

MoviesOf(tuples) == [i \in DOMAIN tuples |-> tuples[i].movie]

\* "Update or create": every exception is printed and swallowed
LegacyUpdateCollection(c, cs, exists, handle, final, rmOk, addOk) ==
  IF handle
  THEN LET rmDone == rmOk /\ exists
           c1 == IF rmDone THEN <<>> ELSE c
           cs1 == Append(cs, Call("remove", c, 0, rmDone))
       IN IF ~rmDone \/ final = <<>>
          THEN [coll |-> c1, exists |-> exists, calls |-> cs1]
          ELSE [coll |-> IF addOk THEN AddItems(c1, final) ELSE c1,
                exists |-> exists,
                calls |-> Append(cs1, Call("add", final, 0, addOk))]
  ELSE IF final = <<>> THEN [coll |-> c, exists |-> exists, calls |-> cs]
  ELSE [coll |-> IF addOk THEN AddItems(<<>>, final) ELSE c,
        exists |-> (exists \/ addOk),
        calls |-> Append(cs, Call("create", final, 0, addOk))]

(***************************************************************************)
(* State.                                                                  *)
(***************************************************************************)
VARIABLES
  \* the library: the named collection and its items in display order
  collExists, coll,
  \* the ScoreStore file: "absent", "ok" (a JSON object) or "corrupt"
  fileState, fileData,
  \* the run in progress
  pc, variant, runs, envCount, envAt,
  points_data, plex_movies, randomize, collection, existing_items, final_items,
  current, to_remove, to_add, calls, exc, excAt, rc,
  current_collection_items, failed_moves, successful_moves, saved,
  \* the ScoreStore file and the collection's existence as the run found them
  found,
  \* per key: the number of consecutive completed and saved curation runs that
  \* matched the key exactly once since it had no score, -1 when not tracked
  streak,
  \* the accessor under test: its key argument and what it returned
  arg_key, result,
  \* the _set_points call made on the mapping: the value written and the
  \* mapping as it was before
  set_call,
  \* apply_collection_state_to_plex and the refresher: the keys handed in, the
  \* keys that resolved to nothing, --dry-run, and whether the refresher runs
  \* inside the curation entry point
  rating_keys, failed_keys, dry_run, embedded,
  \* the media kind the entry point was invoked with
  media_type,
  \* the TMDbCache object: whether one is constructed, how many were, its
  \* data["ids"], the cache file, the title searches sent so far, the last
  \* get_tmdb_id call, and whether a write of the cache file ever failed
  cache_live, cache_gen, ids, cache_file, requests, last_get, write_failed,
  \* the filtering variant: its module-level caches, the scored candidates
  \* and the list it hands to the library
  tmdb_id_cache, tmdb_rating_cache, candidate_tuples, final_movies,
  \* the titles that a run of the filtering variant has scored below 5 so far
  low_scored,
  \* a curation run in a second process: where it stands in save_points, the
  \* mapping it saves and the ScoreStore file it started from
  writer

libVars == <<collExists, coll>>
fileVars == <<fileState, fileData>>
orderVars == <<current_collection_items, failed_moves, successful_moves>>
diffVars == <<current, to_remove, to_add>>
pureVars == <<arg_key, result, set_call>>
refVars == <<rating_keys, failed_keys, dry_run, embedded>>
cacheVars == <<cache_live, cache_gen, ids, cache_file, requests, last_get,
               write_failed>>
legacyVars == <<tmdb_id_cache, tmdb_rating_cache, candidate_tuples,
                final_movies, low_scored>>
otherVars == <<cacheVars, legacyVars, writer>>
vars == <<collExists, coll, fileState, fileData, pc, variant, runs, envCount,
          envAt, points_data, plex_movies, randomize, collection, existing_items,
          final_items, current, to_remove, to_add, calls, exc, excAt, rc,
          current_collection_items, failed_moves, successful_moves, saved,
          found, streak, arg_key, result, set_call, rating_keys, failed_keys, dry_run,
          embedded, media_type, cache_live, cache_gen, ids, cache_file,
          requests, last_get, write_failed, tmdb_id_cache, tmdb_rating_cache,
          candidate_tuples, final_movies, low_scored, writer>>

\* load_points(path, logger): {} unless the file holds a JSON object
LoadPoints(fs, fd) == IF fs = "ok" THEN fd ELSE EmptyMap

(***************************************************************************)
(* Initial states: a library collection and a ScoreStore file left by      *)
(* earlier runs or edited by hand.                                         *)
(***************************************************************************)
Titled(n) == Obj(IntV(n), Absent, BadStr)

SeedFiles ==
  { EmptyMap,
    \* bare integers and a titled record, with entries for a clip and for an
    \* item that left the library
    [k \in Keys |-> CASE k = 1 -> IntV(1)
                      [] k = 2 -> Titled(MaxN)
                      [] k = 3 -> Absent
                      [] OTHER -> IntV(1)],
    \* a score of 0 and a record with a score field only
    [k \in Keys |-> CASE k = 1 -> Obj(Absent, IntV(1), Absent)
                      [] k = 3 -> IntV(0)
                      [] OTHER -> Absent],
    \* a record whose points field is not a number
    [k \in Keys |-> IF k = 3 THEN Obj(BadStr, Absent, Absent) ELSE Absent] }

SeedColls == {<<>>, <<1>>, <<2, 1>>, <<3, 1, 2>>}

NoResult == [called |-> FALSE, raised |-> FALSE, val |-> 0]

NoSet == [done |-> FALSE, val |-> 0, prior |-> EmptyMap]

\* no run has started; the in-memory mapping is set by the caller
NoRun ==
  /\ pc = "idle" /\ variant = "none" /\ runs = 0 /\ envCount = 0 /\ envAt = {}
  /\ plex_movies = <<>> /\ randomize = FALSE
  /\ collection = FALSE /\ existing_items = <<>> /\ final_items = <<>>
  /\ current = <<>> /\ to_remove = <<>> /\ to_add = <<>> /\ calls = <<>>
  /\ exc = "none" /\ excAt = "none" /\ rc = -1
  /\ current_collection_items = {}
  /\ failed_moves = <<>> /\ successful_moves = 0 /\ saved = FALSE
  /\ rating_keys = <<>> /\ failed_keys = <<>> /\ dry_run = FALSE
  /\ embedded = FALSE /\ media_type = "movie"
  /\ cache_live = FALSE /\ cache_gen = 0 /\ ids = NoIds /\ requests = <<>>
  /\ last_get = NoGet /\ write_failed = FALSE
  /\ tmdb_id_cache = NoTmdbIds /\ tmdb_rating_cache = NoRatings
  /\ candidate_tuples = <<>> /\ final_movies = <<>> /\ low_scored = {}
  /\ writer = [pc |-> "idle", points |-> EmptyMap,
               pre |-> [fileState |-> "unset", fileData |-> EmptyMap]]

RunIdle == NoRun /\ points_data = EmptyMap

\* what open() and json.load can find at the path of the points file: no
\* file, a JSON object, text that is not JSON, a file that cannot be read, or
\* JSON whose top level is not an object
FileStates == {"absent", "ok", "corrupt", "unreadable", "notobject"}

InitFrom(FS, FILES) ==
  /\ collExists \in BOOLEAN
  /\ coll \in SeedColls
  /\ ~collExists => coll = <<>>
  /\ fileState \in FS
  /\ fileData \in FILES
  /\ fileState # "ok" => fileData = EmptyMap
  /\ RunIdle
  /\ found = [fileState |-> fileState, fileData |-> fileData,
              collExists |-> collExists]
  /\ streak = [k \in Keys |-> IF LoadPoints(fileState, fileData)[k] = Absent
                               THEN 0 ELSE -1]
  /\ arg_key = 1 /\ result = NoResult /\ set_call = NoSet
  /\ cache_file = NoCacheFile

InitWith(FS) == InitFrom(FS, SeedFiles)

Init == InitWith({"absent", "ok"})

(***************************************************************************)
(* refresh_collection_with_points: Fetch and build the desired list.       *)
(***************************************************************************)
\* where control goes when the function returns or raises: back to the caller
\* of the function ("done"), or on to the rest of the entry point
AfterCall(v) == IF v \in {"refresh", "apply"} THEN "done" ELSE "finish"

\* section.collection(name) and collection.items() at the start
FetchExisting(exists, c) ==
  [collection |-> exists, existing_items |-> IF exists THEN c ELSE <<>>]

\* the per-run variables as a run finds them
ResetRun ==
  /\ envAt' = {}
  /\ calls' = <<>>
  /\ current' = <<>> /\ to_remove' = <<>> /\ to_add' = <<>>
  /\ current_collection_items' = {}
  /\ failed_moves' = <<>> /\ successful_moves' = 0
  /\ saved' = FALSE /\ rc' = -1
  /\ found' = [fileState |-> fileState, fileData |-> fileData,
               collExists |-> collExists]

BeginRefresh(v, mt, pm, rnd, fetchOk, limit) ==
  LET f == FetchExisting(collExists, coll)
      b == BuildFinalItems(f.existing_items, pm,
                           LoadPoints(fileState, fileData), 50)
  IN /\ pc \in {"idle", "done"}
     /\ variant \in {"none", v}
     /\ runs < limit
     /\ runs' = runs + 1
     /\ variant' = v
     /\ media_type' = mt
     /\ randomize' = rnd
     /\ ResetRun
     /\ IF mt # "movie"
          THEN /\ exc' = "none" /\ excAt' = "none" /\ pc' = AfterCall(v)
               /\ collection' = FALSE /\ existing_items' = <<>>
               /\ final_items' = <<>> /\ plex_movies' = <<>>
               /\ points_data' = EmptyMap
        ELSE IF ~fetchOk
          THEN /\ exc' = "LibraryError" /\ excAt' = "fetch" /\ pc' = AfterCall(v)
               /\ collection' = FALSE /\ existing_items' = <<>>
               /\ final_items' = <<>> /\ plex_movies' = pm
               /\ points_data' = LoadPoints(fileState, fileData)
          ELSE /\ collection' = f.collection
               /\ existing_items' = f.existing_items
               /\ final_items' = b.final_items
               /\ plex_movies' = pm
               /\ points_data' = b.points_data
               /\ exc' = IF b.raised THEN "ValueError" ELSE "none"
               /\ excAt' = IF b.raised THEN "build" ELSE "none"
               /\ pc' = IF b.raised THEN AfterCall(v) ELSE "diff"
     /\ UNCHANGED <<libVars, fileVars, envCount, streak, pureVars, refVars, otherVars>>

\* the lists find_plex_movie can produce for one run's recommendations
MatchedLists == SeqsUpTo(MovieKeys, MaxMatched)

MediaTypes == {"movie", "episode"}

\* older run_pipeline up to the desired list
StartDirectOn(MT, RND, OKS, limit) ==
  \E mt \in MT, pm \in MatchedLists, rnd \in RND, fetchOk \in OKS :
    BeginRefresh("direct", mt, pm, rnd, fetchOk, limit)

\* newer refresh_collection_with_points called on the loaded mapping
StartRefreshOn(RND, OKS, limit) ==
  \E pm \in MatchedLists, rnd \in RND, fetchOk \in OKS :
    BeginRefresh("refresh", "movie", pm, rnd, fetchOk, limit)

(***************************************************************************)
(* refresh_collection_with_points: Diff, Apply, Reorder.                   *)
(***************************************************************************)
\* a remove-all in place of the diff
ToRemoveAll(current_, final_items_) == current_

ToRemove(current_, final_items_) ==
  SelectSeq(current_, LAMBDA i : i \notin SeqToSet(final_items_))

ToAdd(current_, final_items_) ==
  SelectSeq(final_items_, LAMBDA i : i \notin SeqToSet(current_))

\* the first fetch reused in place of the second collection.items()
ReReadStale(handle, live, fetched) == fetched

\* current = collection.items() if collection else []
ReRead(handle, live, fetched) == IF handle THEN live ELSE <<>>

Diff ==
  \E readOk \in BOOLEAN :
    /\ pc = "diff"
    /\ IF collection /\ ~(readOk /\ collExists)
         THEN /\ exc' = "LibraryError" /\ excAt' = "diff"
              /\ pc' = AfterCall(variant)
              /\ UNCHANGED diffVars
         ELSE LET cur == ReRead(collection, coll, existing_items) IN
              /\ current' = cur
              /\ to_remove' = ToRemove(cur, final_items)
              /\ to_add' = ToAdd(cur, final_items)
              /\ pc' = "apply"
              /\ UNCHANGED <<exc, excAt>>
    /\ UNCHANGED <<libVars, fileVars, variant, runs, envCount, envAt, points_data,
                   plex_movies, randomize, collection, existing_items, final_items,
                   calls, rc, orderVars, saved, found, streak, pureVars, refVars, media_type, otherVars>>

\* the add call issued without the "if to_add" test
ApplyDiffAlwaysAdds(c, cs, exists, handle, to_remove_, to_add_, rmOk, addOk) ==
  LET rmDone == to_remove_ # <<>> /\ rmOk /\ exists
      c1 == IF rmDone THEN RemoveItems(c, to_remove_) ELSE c
      cs1 == IF to_remove_ # <<>>
               THEN Append(cs, Call("remove", to_remove_, 0, rmDone)) ELSE cs
  IN IF to_remove_ # <<>> /\ ~rmDone
       THEN [coll |-> c, calls |-> cs1, exc |-> "LibraryError"]
     ELSE IF ~handle
       THEN [coll |-> c1, calls |-> cs1, exc |-> "AttributeError"]
     ELSE IF addOk /\ exists
       THEN [coll |-> AddItems(c1, to_add_),
             calls |-> Append(cs1, Call("add", to_add_, 0, TRUE)), exc |-> "none"]
     ELSE [coll |-> c1, calls |-> Append(cs1, Call("add", to_add_, 0, FALSE)),
           exc |-> "LibraryError"]

\* "remove only what's needed" / "add only what's needed":
\* [coll, calls, exc]
ApplyDiff(c, cs, exists, handle, to_remove_, to_add_, rmOk, addOk) ==
  LET rmDone == to_remove_ # <<>> /\ rmOk /\ exists
      c1 == IF rmDone THEN RemoveItems(c, to_remove_) ELSE c
      cs1 == IF to_remove_ # <<>>
               THEN Append(cs, Call("remove", to_remove_, 0, rmDone)) ELSE cs
  IN IF to_remove_ # <<>> /\ ~rmDone
       THEN [coll |-> c, calls |-> cs1, exc |-> "LibraryError"]
     ELSE IF to_add_ = <<>>
       THEN [coll |-> c1, calls |-> cs1, exc |-> "none"]
     ELSE IF ~handle
       THEN [coll |-> c1, calls |-> cs1, exc |-> "AttributeError"]
     ELSE IF addOk /\ exists
       THEN [coll |-> AddItems(c1, to_add_),
             calls |-> Append(cs1, Call("add", to_add_, 0, TRUE)), exc |-> "none"]
     ELSE [coll |-> c1, calls |-> Append(cs1, Call("add", to_add_, 0, FALSE)),
           exc |-> "LibraryError"]

Apply ==
  \E rmOk \in BOOLEAN, addOk \in BOOLEAN :
    LET r == ApplyDiff(coll, calls, collExists, collection, to_remove, to_add,
                       rmOk, addOk)
    IN /\ pc = "apply"
       /\ coll' = r.coll
       /\ calls' = r.calls
       /\ exc' = r.exc
       /\ excAt' = IF r.exc = "none" THEN "none" ELSE "apply"
       /\ pc' = IF r.exc = "none" /\ randomize THEN "reorder"
                ELSE AfterCall(variant)
       /\ UNCHANGED <<collExists, fileVars, variant, runs, envCount, envAt,
                      points_data, plex_movies, randomize, collection,
                      existing_items, final_items, diffVars, rc, orderVars, saved,
                      found, streak, pureVars, refVars, media_type, otherVars>>

\* refresh_collection_with_points shuffles the desired list before the reorder;
\* apply_collection_state_to_plex keeps the order of its input
OrdersToApply(v, items) ==
  IF v \in {"direct", "refresh"} THEN Shuffles(items) ELSE {items}

\* _apply_custom_order(plex, collection, final_items) and what its caller does
\* with the outcome
Reorder ==
  \E perm \in OrdersToApply(variant, final_items), sortOk \in BOOLEAN,
     itemsOk \in BOOLEAN, F \in SUBSET SeqToSet(final_items) :
    LET r == IF variant = "direct"
               THEN ApplyCustomOrderOld(coll, calls, collExists, collection, perm,
                                        sortOk, F)
               ELSE ApplyCustomOrderNew(coll, calls, collExists, collection, perm,
                                        sortOk, itemsOk, F)
    IN /\ pc = "reorder"
       /\ final_items' = perm
       /\ coll' = r.coll
       /\ calls' = r.calls
       /\ current_collection_items' = r.cci
       /\ failed_moves' = r.failed_moves
       /\ successful_moves' = r.successful_moves
       /\ exc' = IF r.raised THEN "LibraryError" ELSE "none"
       /\ excAt' = IF r.raised THEN "reorder" ELSE "none"
       /\ pc' = AfterCall(variant)
       /\ UNCHANGED <<collExists, fileVars, variant, runs, envCount, envAt,
                      points_data, plex_movies, randomize, collection,
                      existing_items, diffVars, rc, saved, found, streak,
                      pureVars, refVars, media_type, otherVars>>

(***************************************************************************)
(* The end of a run: save_points, tmdb_cache.save() and the exit code of   *)
(* the entry point.                                                        *)
(***************************************************************************)
\* save_points(path, points_data, logger): open(path, "w") truncates, json.dump
\* writes; an exception of either is logged and swallowed
SavePoints(fs, fd, m, outcome) ==
  CASE outcome = "ok" -> [fileState |-> "ok", fileData |-> m]
    [] outcome = "write_failed" -> [fileState |-> "corrupt", fileData |-> EmptyMap]
    [] OTHER -> [fileState |-> fs, fileData |-> fd]

SaveOutcomes == {"ok", "open_failed", "write_failed"}

\* a save_points without its except clause
SaveErrorPropagates(outcome) == IF outcome = "ok" THEN "none" ELSE "OSError"

\* the exception that leaves save_points: "except Exception" logs and swallows
SaveError(outcome) == "none"

Count(s, x) == Cardinality({i \in DOMAIN s : s[i] = x})

StreakAfter(st, counted, pm, m) ==
  [k \in Keys |->
     IF counted /\ st[k] >= 0 /\ Count(pm, k) = 1 THEN st[k] + 1
     ELSE IF m[k] = Absent THEN 0 ELSE -1]

\* an entry point that reports success whatever happened
ExitCodeAlwaysOk(e) == 0

\* main() of the entry point: 0 after run_pipeline returned, 2 on an exception
ExitCode(e) == IF e = "none" THEN 0 ELSE 2

\* older run_pipeline after the collection refresh, and main()'s return
FinishDirect ==
  \E outcome \in SaveOutcomes, cacheOk \in BOOLEAN :
    LET reached == exc = "none" /\ media_type = "movie"
        f == IF reached
               THEN SavePoints(fileState, fileData, points_data, outcome)
               ELSE [fileState |-> fileState, fileData |-> fileData]
        se == IF reached THEN SaveError(outcome) ELSE "none"
        e == IF se # "none" THEN se
             ELSE IF reached /\ ~cacheOk THEN "OSError" ELSE exc
    IN /\ pc = "finish"
       /\ variant = "direct"
       /\ fileState' = f.fileState
       /\ fileData' = f.fileData
       /\ saved' = (reached /\ outcome = "ok")
       /\ exc' = e
       /\ excAt' = IF se # "none" THEN "save"
                   ELSE IF reached /\ ~cacheOk THEN "cache_save" ELSE excAt
       /\ rc' = ExitCode(e)
       /\ streak' = StreakAfter(streak, e = "none" /\ outcome = "ok", plex_movies,
                                LoadPoints(f.fileState, f.fileData))
       /\ pc' = "done"
       /\ UNCHANGED <<libVars, variant, runs, envCount, envAt, points_data,
                      plex_movies, randomize, collection, existing_items,
                      final_items, diffVars, calls, orderVars, found, pureVars, refVars, media_type, otherVars>>

(***************************************************************************)
(* Another process (a user, another run) changes the collection while a    *)
(* run is between two library calls.                                       *)
(***************************************************************************)
EnvChange ==
  /\ pc \in {"diff", "apply", "rebuild", "reorder"}
  /\ envCount < MaxEnv
  /\ envCount' = envCount + 1
  /\ envAt' = envAt \cup {pc}
  /\ \/ \E k \in MovieKeys \ SeqToSet(coll) :
          /\ collExists /\ coll' = Append(coll, k) /\ UNCHANGED collExists
     \/ \E k \in SeqToSet(coll) :
          /\ coll' = Without(coll, k) /\ UNCHANGED collExists
     \/ /\ collExists /\ collExists' = FALSE /\ coll' = <<>>
     \/ \E k \in MovieKeys :
          /\ ~collExists /\ collExists' = TRUE /\ coll' = <<k>>
  /\ UNCHANGED <<fileVars, pc, variant, runs, points_data, plex_movies, randomize,
                 collection, existing_items, final_items, diffVars, calls, exc,
                 excAt, rc, orderVars, saved, found, streak, pureVars, refVars, media_type, otherVars>>

(***************************************************************************)
(* apply_collection_state_to_plex (teardown / rebuild).                    *)
(***************************************************************************)
\* the rating keys that _fetch_by_rating_key resolves to a movie, in order
ResolveMovies(keys) == SelectSeq(keys, LAMBDA k : ItemType(k) = "movie")

\* the rating keys that _fetch_by_rating_key resolves to nothing
ResolveFailed(keys) == SelectSeq(keys, LAMBDA k : ItemType(k) = "none")

\* the entry of the function up to the end of the resolution loop:
\* [exc, collection, existing_items, desired_items, failed_keys]
BeginApply(exists, c, keys, connOk, fetchOk) ==
  IF ~(connOk /\ fetchOk)
    THEN [exc |-> "LibraryError", collection |-> FALSE, existing_items |-> <<>>,
          desired_items |-> <<>>, failed_keys |-> <<>>]
    ELSE [exc |-> "none",
          collection |-> FetchExisting(exists, c).collection,
          existing_items |-> FetchExisting(exists, c).existing_items,
          desired_items |-> ResolveMovies(keys),
          failed_keys |-> ResolveFailed(keys)]

\* a rebuild that skips the removal of the existing items
RebuildKeepsExisting(c, cs, exists, handle, existing, desired, rmOk, addOk) ==
  IF desired = <<>> THEN [coll |-> c, exists |-> exists, calls |-> cs, exc |-> "none"]
  ELSE IF ~handle
    THEN [coll |-> AddItems(c, desired), exists |-> TRUE,
          calls |-> Append(cs, Call("create", desired, 0, TRUE)), exc |-> "none"]
  ELSE [coll |-> AddItems(c, desired), exists |-> exists,
        calls |-> Append(cs, Call("add", desired, 0, TRUE)), exc |-> "none"]

\* a rebuild that logs a failed removal and goes on to add
RebuildSwallowsRemoveError(c, cs, exists, handle, existing, desired, rmOk, addOk) ==
  LET rmDone == existing # <<>> /\ rmOk /\ exists
      c1 == IF rmDone THEN RemoveItems(c, existing) ELSE c
      cs1 == IF existing # <<>>
               THEN Append(cs, Call("remove", existing, 0, rmDone)) ELSE cs
  IN IF desired = <<>>
       THEN [coll |-> c1, exists |-> exists, calls |-> cs1, exc |-> "none"]
     ELSE IF ~handle
       THEN IF addOk
              THEN [coll |-> AddItems(c1, desired), exists |-> TRUE,
                    calls |-> Append(cs1, Call("create", desired, 0, TRUE)),
                    exc |-> "none"]
              ELSE [coll |-> c1, exists |-> exists,
                    calls |-> Append(cs1, Call("create", desired, 0, FALSE)),
                    exc |-> "LibraryError"]
     ELSE IF addOk /\ exists
       THEN [coll |-> AddItems(c1, desired), exists |-> exists,
             calls |-> Append(cs1, Call("add", desired, 0, TRUE)), exc |-> "none"]
     ELSE [coll |-> c1, exists |-> exists,
           calls |-> Append(cs1, Call("add", desired, 0, FALSE)),
           exc |-> "LibraryError"]

\* "remove all existing items", then "add all desired items" (or create the
\* collection with them): [coll, exists, calls, exc]
RebuildCollection(c, cs, exists, handle, existing, desired, rmOk, addOk) ==
  LET rmDone == existing # <<>> /\ rmOk /\ exists
      c1 == IF rmDone THEN RemoveItems(c, existing) ELSE c
      cs1 == IF existing # <<>>
               THEN Append(cs, Call("remove", existing, 0, rmDone)) ELSE cs
  IN IF existing # <<>> /\ ~rmDone
       THEN [coll |-> c, exists |-> exists, calls |-> cs1, exc |-> "LibraryError"]
     ELSE IF desired = <<>>
       THEN [coll |-> c1, exists |-> exists, calls |-> cs1, exc |-> "none"]
     ELSE IF ~handle
       THEN IF addOk
              THEN [coll |-> AddItems(c1, desired), exists |-> TRUE,
                    calls |-> Append(cs1, Call("create", desired, 0, TRUE)),
                    exc |-> "none"]
              ELSE [coll |-> c1, exists |-> exists,
                    calls |-> Append(cs1, Call("create", desired, 0, FALSE)),
                    exc |-> "LibraryError"]
     ELSE IF addOk /\ exists
       THEN [coll |-> AddItems(c1, desired), exists |-> exists,
             calls |-> Append(cs1, Call("add", desired, 0, TRUE)), exc |-> "none"]
     ELSE [coll |-> c1, exists |-> exists,
           calls |-> Append(cs1, Call("add", desired, 0, FALSE)),
           exc |-> "LibraryError"]

\* the variables a rebuild run does not use
RebuildUnused ==
  /\ plex_movies' = <<>> /\ randomize' = FALSE

\* apply_collection_state_to_plex called with collection_state["rating_keys"]
StartApply ==
  \E keys \in SeqsUpTo(Keys, MaxKeys), connOk \in BOOLEAN, fetchOk \in BOOLEAN :
    LET b == BeginApply(collExists, coll, keys, connOk, fetchOk) IN
    /\ pc \in {"idle", "done"}
    /\ variant \in {"none", "apply"}
    /\ runs < 1
    /\ runs' = runs + 1
    /\ variant' = "apply"
    /\ ResetRun /\ RebuildUnused /\ media_type' = "movie"
    /\ points_data' = EmptyMap
    /\ rating_keys' = keys
    /\ failed_keys' = b.failed_keys
    /\ collection' = b.collection
    /\ existing_items' = b.existing_items
    /\ final_items' = b.desired_items
    /\ exc' = b.exc
    /\ excAt' = IF b.exc = "none" THEN "none" ELSE "fetch"
    /\ pc' = IF b.exc = "none" THEN "rebuild" ELSE "done"
    /\ UNCHANGED <<libVars, fileVars, envCount, streak, pureVars, dry_run, embedded, otherVars>>

Rebuild ==
  \E rmOk \in BOOLEAN, addOk \in BOOLEAN :
    LET r == RebuildCollection(coll, calls, collExists, collection, existing_items,
                               final_items, rmOk, addOk)
    IN /\ pc = "rebuild"
       /\ coll' = r.coll
       /\ collExists' = r.exists
       /\ calls' = r.calls
       /\ collection' = IF r.exc = "none" /\ final_items # <<>> THEN TRUE
                         ELSE collection
       /\ exc' = r.exc
       /\ excAt' = IF r.exc = "none" THEN "none" ELSE "apply"
       /\ pc' = IF r.exc = "none" /\ final_items # <<>> THEN "reorder"
                ELSE AfterCall(variant)
       /\ UNCHANGED <<fileVars, variant, runs, envCount, envAt, points_data,
                      plex_movies, randomize, existing_items, final_items,
                      diffVars, rc, orderVars, saved, found, streak, pureVars,
                      refVars, media_type, otherVars>>

(***************************************************************************)
(* The refresher entry point.                                              *)
(***************************************************************************)
\* the orders random.shuffle can leave list(points_data.keys()) in
KeyOrders(m) ==
  {t \in DistinctSeqs(KeysOf(m), Cardinality(KeysOf(m))) :
     Len(t) = Cardinality(KeysOf(m))}

\* a load_points that returns the entries it could read of a partial file
RefresherLoadPointsLenient(fs, fd) ==
  IF fs \in {"ok", "partial"} THEN fd ELSE EmptyMap

\* the refresher's own load_points: {} unless the file holds a JSON object
RefresherLoadPoints(fs, fd) == IF fs = "ok" THEN fd ELSE EmptyMap

\* a main() whose only handler is "except Exception"
RefresherExitCodeNoInterrupt(e) == IF e = "none" THEN 0 ELSE 1

\* the value main() returns when it ends with exception e ("none": no
\* exception): "except KeyboardInterrupt" comes before "except Exception"
RefresherExitCode(e) ==
  IF e = "none" THEN 0 ELSE IF e = "KeyboardInterrupt" THEN 130 ELSE 1

\* a refresher that applies the state whatever --dry-run says
AppliesStateIgnoringDryRun(dry, items) == items # <<>>

\* whether main() reaches apply_collection_state_to_plex: some key resolved
\* to a movie and --dry-run was not given
AppliesState(dry, items) == items # <<>> /\ ~dry

\* what the process reports: the curation entry point logs the embedded
\* refresher's outcome and returns 0
ReportedCode(emb, code) == IF emb THEN 0 ELSE code

\* main() of the refresher up to the call of apply_collection_state_to_plex
\* and into it, up to the end of its resolution loop.  rating_keys and
\* failed_keys are main()'s lists; the function is handed the keys of items,
\* which all resolve to movies again
StartRefresherOn(DRY) ==
  \E dry \in DRY, connOk \in BOOLEAN, fetchOk \in BOOLEAN :
    LET m == RefresherLoadPoints(fileState, fileData)
        emb == pc = "refresher"
    IN /\ pc \in {"idle", "done", "refresher"}
       /\ variant \in {"none", "refresher", "deferred"}
       /\ emb => ~dry
       /\ ~emb => runs < 1
       /\ runs' = IF emb THEN runs ELSE runs + 1
       /\ variant' = "refresher"
       /\ embedded' = emb
       /\ dry_run' = dry
       /\ ResetRun /\ RebuildUnused
       /\ media_type' = IF emb THEN media_type ELSE "movie"
       /\ points_data' = IF fileState = "absent" THEN EmptyMap ELSE m
       /\ IF fileState = "absent" \/ KeysOf(m) = {}
            THEN /\ rating_keys' = <<>> /\ failed_keys' = <<>>
                 /\ collection' = FALSE /\ existing_items' = <<>>
                 /\ final_items' = <<>>
                 /\ exc' = "none" /\ excAt' = "none"
                 /\ pc' = "finish"
            ELSE \E order \in KeyOrders(m) :
                 LET items == ResolveMovies(order)
                     b == BeginApply(collExists, coll, items, TRUE, fetchOk)
                 IN IF ~connOk
                      THEN /\ rating_keys' = order /\ failed_keys' = <<>>
                           /\ collection' = FALSE /\ existing_items' = <<>>
                           /\ final_items' = <<>>
                           /\ exc' = "LibraryError" /\ excAt' = "connect"
                           /\ pc' = "finish"
                    ELSE IF ~AppliesState(dry, items)
                      THEN /\ rating_keys' = order
                           /\ failed_keys' = ResolveFailed(order)
                           /\ collection' = FALSE /\ existing_items' = <<>>
                           /\ final_items' = items
                           /\ exc' = "none" /\ excAt' = "none"
                           /\ pc' = "finish"
                      ELSE /\ rating_keys' = order
                           /\ failed_keys' = ResolveFailed(order)
                           /\ collection' = b.collection
                           /\ existing_items' = b.existing_items
                           /\ final_items' = b.desired_items
                           /\ exc' = b.exc
                           /\ excAt' = IF b.exc = "none" THEN "none" ELSE "fetch"
                           /\ pc' = IF b.exc = "none" THEN "rebuild" ELSE "finish"
       /\ UNCHANGED <<libVars, fileVars, envCount, streak, pureVars, otherVars>>

\* the end of the refresher's main(): its summary and return value
FinishRefresher ==
  /\ pc = "finish"
  /\ variant = "refresher"
  /\ rc' = ReportedCode(embedded,
                        IF exc = "none" /\ found.fileState = "absent" THEN 1
                        ELSE RefresherExitCode(exc))
  /\ pc' = "done"
  /\ UNCHANGED <<libVars, fileVars, variant, runs, envCount, envAt, points_data,
                 plex_movies, randomize, collection, existing_items, final_items,
                 diffVars, calls, exc, excAt, orderVars, saved, found, streak,
                 pureVars, refVars, media_type, otherVars>>

(***************************************************************************)
(* The deferred pipeline: the newer run_pipeline updates the ScoreStore     *)
(* only and leaves the collection to the refresher.                        *)
(***************************************************************************)
\* a cleanup that lets keys at exactly 0 through
CleanupPointsBelowZero(m) ==
  IF \E k \in KeysOf(m) : GetPoints(m, k).raised
    THEN [raised |-> TRUE, m |-> m]
    ELSE [raised |-> FALSE,
          m |-> [k \in Keys |-> IF m[k] # Absent /\ GetPoints(m, k).val < 0
                                 THEN Absent ELSE m[k]]]

\* "remove items with points <= 0 (cleanup)": [raised, m]
CleanupPoints(m) ==
  IF \E k \in KeysOf(m) : GetPoints(m, k).raised
    THEN [raised |-> TRUE, m |-> m]
    ELSE [raised |-> FALSE,
          m |-> [k \in Keys |-> IF m[k] # Absent /\ GetPoints(m, k).val <= 0
                                 THEN Absent ELSE m[k]]]

\* newer run_pipeline up to the end of the points_update step
StartDeferredOn(MT, OKS, limit) ==
  \E mt \in MT, pm \in MatchedLists, fetchOk \in OKS :
    LET f == FetchExisting(collExists, coll)
        b == BuildFinalItems(f.existing_items, pm,
                             LoadPoints(fileState, fileData), 50)
        cl == CleanupPoints(b.points_data)
    IN /\ pc \in {"idle", "done"}
       /\ variant \in {"none", "deferred"}
       /\ runs < limit
       /\ runs' = runs + 1
       /\ variant' = "deferred"
       /\ media_type' = mt
       /\ randomize' = FALSE
       /\ ResetRun
       /\ pc' = "finish"
       /\ IF mt # "movie"
            THEN /\ exc' = "none" /\ excAt' = "none"
                 /\ collection' = FALSE /\ existing_items' = <<>>
                 /\ final_items' = <<>> /\ plex_movies' = <<>>
                 /\ points_data' = EmptyMap
          ELSE IF ~fetchOk
            THEN /\ exc' = "LibraryError" /\ excAt' = "fetch"
                 /\ collection' = FALSE /\ existing_items' = <<>>
                 /\ final_items' = <<>> /\ plex_movies' = pm
                 /\ points_data' = LoadPoints(fileState, fileData)
            ELSE /\ collection' = f.collection
                 /\ existing_items' = f.existing_items
                 /\ final_items' = b.final_items
                 /\ plex_movies' = pm
                 /\ points_data' = IF b.raised THEN b.points_data ELSE cl.m
                 /\ exc' = IF b.raised \/ cl.raised THEN "ValueError" ELSE "none"
                 /\ excAt' = IF b.raised THEN "build"
                             ELSE IF cl.raised THEN "cleanup" ELSE "none"
       /\ UNCHANGED <<libVars, fileVars, envCount, streak, pureVars, refVars, otherVars>>

\* the value the newer main() returns when run_pipeline ends with exception e
MainExitCode(e) ==
  IF e = "none" THEN 0 ELSE IF e = "KeyboardInterrupt" THEN 130 ELSE 2

\* newer run_pipeline after the points_update step, and the rest of main():
\* the embedded refresher when run_collection_refresher is set, else the
\* return value
FinishDeferredOn(RR) ==
  \E outcome \in SaveOutcomes, cacheOk \in BOOLEAN, run_refresher \in RR :
    LET reached == exc = "none" /\ media_type = "movie"
        f == IF reached
               THEN SavePoints(fileState, fileData, points_data, outcome)
               ELSE [fileState |-> fileState, fileData |-> fileData]
        se == IF reached THEN SaveError(outcome) ELSE "none"
        e == IF se # "none" THEN se
             ELSE IF reached /\ ~cacheOk THEN "OSError" ELSE exc
    IN /\ pc = "finish"
       /\ variant = "deferred"
       /\ fileState' = f.fileState
       /\ fileData' = f.fileData
       /\ saved' = (reached /\ outcome = "ok")
       /\ exc' = e
       /\ excAt' = IF se # "none" THEN "save"
                   ELSE IF reached /\ ~cacheOk THEN "cache_save" ELSE excAt
       /\ streak' = StreakAfter(streak, e = "none" /\ outcome = "ok", plex_movies,
                                LoadPoints(f.fileState, f.fileData))
       /\ IF e = "none" /\ run_refresher
            THEN pc' = "refresher" /\ rc' = rc
            ELSE pc' = "done" /\ rc' = MainExitCode(e)
       /\ UNCHANGED <<libVars, variant, runs, envCount, envAt, points_data,
                      plex_movies, randomize, collection, existing_items,
                      final_items, diffVars, calls, orderVars, found, pureVars,
                      refVars, media_type, otherVars>>

\* the user interrupts a run of the newer entry points (SIGINT): the
\* KeyboardInterrupt passes every "except Exception" on its way to main()
Interrupt ==
  /\ variant \in {"refresher", "deferred"}
  /\ pc \in {"rebuild", "reorder", "finish"}
  /\ exc = "none"
  /\ exc' = "KeyboardInterrupt" /\ excAt' = "interrupt"
  /\ pc' = "finish"
  /\ UNCHANGED <<libVars, fileVars, variant, runs, envCount, envAt, points_data,
                 plex_movies, randomize, collection, existing_items, final_items,
                 diffVars, calls, rc, orderVars, saved, found, streak, pureVars,
                 refVars, media_type, otherVars>>

(***************************************************************************)
(* TMDbCache: construction, get_tmdb_id and save.                          *)
(***************************************************************************)
mainVars == <<libVars, fileVars, pc, variant, runs, envCount, envAt,
              points_data, plex_movies, randomize, collection, existing_items,
              final_items, diffVars, calls, exc, excAt, rc, orderVars, saved,
              found, streak, pureVars, refVars, media_type, writer>>

\* TMDbCache(api_key, cache_path): __init__ and _load. A missing file is
\* created and a file that cannot be loaded is reset, both through _save,
\* whose exception leaves the caller without an object.
NewCache ==
  \E outcome \in WriteOutcomes :
    LET readable == cache_file.state = "ok"
        raised == ~readable /\ outcome # "ok"
    IN /\ cache_gen < MaxLoads
       /\ readable => outcome = "ok"
       /\ cache_gen' = cache_gen + 1
       /\ cache_live' = ~raised
       /\ ids' = IF readable THEN LoadIds(cache_file.raw) ELSE NoIds
       /\ cache_file' = IF readable THEN cache_file
                        ELSE CacheFileAfter(cache_file, NoIds, outcome)
       /\ write_failed' = (write_failed \/ raised)
       /\ UNCHANGED <<requests, last_get, legacyVars, mainVars>>

\* what _fetch_tmdb_id returns: the first result's id, or None when there is
\* no result or the request failed
FetchResults == {Null} \cup {IntV(i) : i \in TmdbIds}

\* the entry of title in the cache file as the next _load would read it
PersistedId(file, title) ==
  IF file.state = "ok" THEN LoadIds(file.raw)[title] ELSE Absent

\* get_tmdb_id(title)
GetTmdbId ==
  \E title \in Titles \cup {EmptyTitle}, r \in FetchResults,
     outcome \in WriteOutcomes :
    /\ cache_live
    /\ IF title = EmptyTitle
       THEN /\ r = Null /\ outcome = "ok"
            /\ last_get' = [NoGet EXCEPT !.called = TRUE, !.gen = cache_gen]
            /\ UNCHANGED <<ids, cache_file, requests, write_failed>>
       ELSE IF ids[title] # Absent
       THEN /\ r = Null /\ outcome = "ok"
            /\ last_get' = [called |-> TRUE, title |-> title, hit |-> TRUE,
                            network |-> FALSE, val |-> ids[title],
                            raised |-> FALSE, gen |-> cache_gen,
                            stored |-> ids[title],
                            persisted |-> PersistedId(cache_file, title)]
            /\ UNCHANGED <<ids, cache_file, requests, write_failed>>
       ELSE LET file2 == CacheFileAfter(cache_file, [ids EXCEPT ![title] = r],
                                        outcome)
            IN /\ requests' = Append(requests,
                                     [title |-> title, gen |-> cache_gen])
               /\ ids' = [ids EXCEPT ![title] = r]
               /\ cache_file' = file2
               /\ write_failed' = (write_failed \/ outcome # "ok")
               /\ last_get' = [called |-> TRUE, title |-> title, hit |-> FALSE,
                               network |-> TRUE, val |-> r,
                               raised |-> (outcome # "ok"), gen |-> cache_gen,
                               stored |-> r,
                               persisted |-> PersistedId(file2, title)]
    /\ UNCHANGED <<cache_live, cache_gen, legacyVars, mainVars>>

\* save()
SaveCache ==
  \E outcome \in WriteOutcomes :
    /\ cache_live
    /\ cache_file' = CacheFileAfter(cache_file, ids, outcome)
    /\ write_failed' = (write_failed \/ outcome # "ok")
    /\ UNCHANGED <<cache_live, cache_gen, ids, requests, last_get, legacyVars,
                   mainVars>>

\* cache files left by earlier versions or edited by hand
SeedIds == {NoIds, [NoIds EXCEPT ![1] = IntV(11)], [NoIds EXCEPT ![1] = Null]}

SeedCacheFiles ==
  {NoCacheFile, [state |-> "corrupt", raw |-> Payload(NoIds)]}
  \cup {[state |-> "ok", raw |-> Payload(m)] : m \in SeedIds}
  \cup {[state |-> "ok", raw |-> Raw(Absent, Dict(m), rc_)] :
          m \in SeedIds, rc_ \in BOOLEAN}
  \cup {[state |-> "ok", raw |-> Raw(Null, Absent, TRUE)]}

InitCache ==
  /\ collExists = FALSE /\ coll = <<>>
  /\ fileState = "absent" /\ fileData = EmptyMap
  /\ RunIdle
  /\ found = [fileState |-> fileState, fileData |-> fileData,
              collExists |-> collExists]
  /\ streak = [k \in Keys |-> -1]
  /\ arg_key = 1 /\ result = NoResult /\ set_call = NoSet
  /\ cache_file \in SeedCacheFiles

NextCache ==
  \/ NewCache
  \/ GetTmdbId
  \/ SaveCache

SpecCache == InitCache /\ [][NextCache]_vars

(***************************************************************************)
(* The filtering variant: one call of refresh_collection_with_points.      *)
(***************************************************************************)
\* up to save_points: candidates, scores, ratings, filter and sort
BeginLegacyOn(REC, RT, OUT, limit) ==
  /\ pc \in {"idle", "done"} /\ variant \in {"none", "legacy"}
  /\ runs < limit
  /\ \E recommended \in REC, outcome \in OUT :
       LET old_movies == IF collExists THEN coll ELSE <<>>
           queried == SeqToSet(old_movies) \cup SeqToSet(recommended)
       IN \E res \in {r \in ResolveMaps :
                        \A t \in MovieKeys :
                          (t \notin queried \/ tmdb_id_cache[t] # Absent)
                            => r[t] = Null} :
          LET idc == [t \in MovieKeys |->
                        IF tmdb_id_cache[t] # Absent THEN tmdb_id_cache[t]
                        ELSE IF t \in queried THEN res[t] ELSE Absent]
              candidates ==
                AppendNew(SelectSeq(old_movies, LAMBDA x : idc[x] # Null),
                          recommended)
              rated == {idc[x].n :
                          x \in {y \in SeqToSet(candidates) : idc[y] # Null}}
          IN \E rt \in [rated -> RT] :
             LET rtc == [i \in MovieKeys |-> IF i \in rated THEN rt[i] ELSE -1]
                 scored == ScoreCandidates(LegacyLoadPoints(fileState, fileData),
                                           <<>>, candidates, idc, rtc)
                 file == SavePoints(fileState, fileData, scored.points_data,
                                    outcome)
             IN /\ envAt' = {} /\ calls' = <<>> /\ rc' = -1
                /\ current' = <<>> /\ to_remove' = <<>> /\ to_add' = <<>>
                /\ current_collection_items' = {}
                /\ failed_moves' = <<>> /\ successful_moves' = 0
                /\ found' = [fileState |-> fileState, fileData |-> fileData,
                             collExists |-> collExists]
                /\ pc' = "legacy_update" /\ variant' = "legacy"
                /\ runs' = runs + 1
                /\ plex_movies' = recommended /\ existing_items' = old_movies
                /\ collection' = collExists
                /\ tmdb_id_cache' = idc /\ tmdb_rating_cache' = rtc
                /\ points_data' = scored.points_data
                /\ candidate_tuples' = scored.candidate_tuples
                /\ low_scored' =
                     low_scored
                       \cup {scored.candidate_tuples[i].movie :
                               i \in {j \in DOMAIN scored.candidate_tuples :
                                        scored.candidate_tuples[j].pts < 5}}
                /\ final_movies' =
                     MoviesOf(LegacySort(<<>>,
                                         FilterCandidates(scored.candidate_tuples)))
                /\ fileState' = file.fileState /\ fileData' = file.fileData
                /\ saved' = (outcome = "ok")
                /\ exc' = "none" /\ excAt' = "none"
                /\ randomize' = FALSE /\ media_type' = "movie"
                /\ final_items' = <<>>
                /\ UNCHANGED <<libVars, envCount, streak, pureVars, refVars,
                               cacheVars, writer>>

\* "Update or create" and the return to main
LegacyUpdateOn(OKS) ==
  \E rmOk \in OKS, addOk \in OKS :
    LET r == LegacyUpdateCollection(coll, calls, collExists, collection,
                                    final_movies, rmOk, addOk)
    IN /\ pc = "legacy_update"
       /\ coll' = r.coll /\ collExists' = r.exists /\ calls' = r.calls
       /\ pc' = "done" /\ rc' = 0
       /\ UNCHANGED <<fileVars, variant, runs, envCount, envAt, points_data,
                      plex_movies, randomize, collection, existing_items,
                      final_items, diffVars, exc, excAt, orderVars, saved, found,
                      streak, pureVars, refVars, media_type, cacheVars,
                      legacyVars, writer>>

\* ScoreStore files the filtering variant left: scores that fall to 4 and 5,
\* scores at 0 and scores already below 5
LegacySeedFiles ==
  { EmptyMap,
    [k \in Keys |-> CASE k = 1 -> IntV(5)
                      [] k = 2 -> Obj(IntV(6), Absent, BadStr)
                      [] k = 3 -> Obj(IntV(5), Absent, BadStr)
                      [] OTHER -> Absent],
    [k \in Keys |-> CASE k = 1 -> Obj(IntV(6), Absent, BadStr)
                      [] k = 2 -> IntV(0)
                      [] k = 3 -> Obj(Absent, Absent, BadStr)
                      [] OTHER -> Absent],
    [k \in Keys |-> CASE k = 1 -> Obj(IntV(3), Absent, BadStr)
                      [] k = 3 -> IntV(3)
                      [] OTHER -> Absent] }

InitLegacy ==
  /\ collExists \in BOOLEAN
  /\ coll \in SeedColls
  /\ ~collExists => coll = <<>>
  /\ fileState \in {"absent", "ok"}
  /\ fileData \in LegacySeedFiles
  /\ fileState # "ok" => fileData = EmptyMap
  /\ RunIdle
  /\ found = [fileState |-> fileState, fileData |-> fileData,
              collExists |-> collExists]
  /\ streak = [k \in Keys |-> -1]
  /\ arg_key = 1 /\ result = NoResult /\ set_call = NoSet
  /\ cache_file = NoCacheFile

LegacyUpdate == LegacyUpdateOn(BOOLEAN)

BeginLegacy == BeginLegacyOn(MatchedLists, Ratings, SaveOutcomes, 1)

NextLegacy ==
  \/ BeginLegacy
  \/ LegacyUpdate

SpecLegacy == InitLegacy /\ [][NextLegacy]_vars

\* several runs of the filtering variant, one after the other
\* what Tautulli recommends in these runs: nothing, a new title, or a title
\* whose search gives the id of another
RunLists == {<<>>, <<3>>, <<2>>}

BeginLegacyRuns == BeginLegacyOn(RunLists, {70, 90}, {"ok"}, MaxRuns)

NextLegacyRuns ==
  \/ BeginLegacyRuns
  \/ LegacyUpdate

SpecLegacyRuns == InitLegacy /\ [][NextLegacyRuns]_vars

(***************************************************************************)
(* build_final_items_with_points applied to one mapping.                   *)
(***************************************************************************)
\* the longest matched list handed to one call
MaxSuggested == 2

\* the mapping is the loaded ScoreStore file
InitBuild ==
  /\ collExists = FALSE /\ coll = <<>>
  /\ fileState = "ok" /\ fileData \in SeedFiles
  /\ NoRun
  /\ points_data = LoadPoints(fileState, fileData)
  /\ found = [fileState |-> fileState, fileData |-> fileData,
              collExists |-> collExists]
  /\ streak = [k \in Keys |-> -1]
  /\ arg_key = 1 /\ result = NoResult /\ set_call = NoSet
  /\ cache_file = NoCacheFile

\* values of the max_points argument: the default 50 and caps below the
\* number of items
MaxPointsArgs == {0, 1, 50}

\* final_items, suggested_now_keys = build_final_items_with_points(...)
CallBuild ==
  \E ex \in SeedColls, pm \in SeqsUpTo(MovieKeys, MaxSuggested),
     max_points \in MaxPointsArgs :
    LET b == BuildFinalItems(ex, pm, points_data, max_points)
    IN /\ pc = "idle"
       /\ pc' = "done" /\ variant' = "build"
       /\ existing_items' = ex /\ plex_movies' = pm
       /\ points_data' = b.points_data
       /\ final_items' = b.final_items
       /\ exc' = IF b.raised THEN "ValueError" ELSE "none"
       /\ excAt' = IF b.raised THEN "build" ELSE "none"
       /\ UNCHANGED <<libVars, fileVars, runs, envCount, envAt, randomize,
                      collection, diffVars, calls, rc, orderVars, saved, found,
                      streak, pureVars, refVars, media_type, otherVars>>

NextBuild == CallBuild

SpecBuild == InitBuild /\ [][NextBuild]_vars

(***************************************************************************)
(* The ScoreStore accessors applied to one mapping.                        *)
(***************************************************************************)
Scalars ==
  {Null, BadStr, EmptyStr, NumStr(1), FloatV(1), ListV(0), ListV(1)}
    \cup {IntV(n) : n \in -1..MaxN}

Fields == Scalars \cup {Absent}

\* the JSON values a hand-edited or older ScoreStore file can hold at a key
Shapes ==
  Fields \cup {Obj(p, s, ti) : p \in Fields, s \in Fields, ti \in {Absent, BadStr}}

InitPoints ==
  /\ collExists = FALSE /\ coll = <<>>
  /\ fileState = "absent" /\ fileData = EmptyMap
  /\ NoRun
  /\ found = [fileState |-> fileState, fileData |-> fileData,
              collExists |-> collExists]
  /\ streak = [k \in Keys |-> -1]
  /\ \E v \in Shapes : points_data = [EmptyMap EXCEPT ![1] = v]
  /\ arg_key \in {1, 2}
  /\ result = NoResult
  /\ set_call = NoSet
  /\ cache_file = NoCacheFile

\* result = _get_points(points_data, arg_key)
CallGetPoints ==
  LET g == GetPoints(points_data, arg_key) IN
  /\ ~result.called
  /\ result' = [called |-> TRUE, raised |-> g.raised, val |-> g.val]
  /\ UNCHANGED <<libVars, fileVars, pc, variant, runs, envCount, envAt,
                 points_data, plex_movies, randomize, collection, existing_items,
                 final_items, diffVars, calls, exc, excAt, rc, orderVars, saved,
                 found, streak, arg_key, set_call, refVars, media_type, otherVars>>

\* the integers handed to _set_points
PointValues == -1..MaxN

\* _set_points(points_data, arg_key, v)
CallSetPoints ==
  \E v \in PointValues :
    /\ ~result.called /\ ~set_call.done
    /\ points_data' = SetPoints(points_data, arg_key, v)
    /\ set_call' = [done |-> TRUE, val |-> v, prior |-> points_data]
    /\ UNCHANGED <<libVars, fileVars, pc, variant, runs, envCount, envAt,
                   plex_movies, randomize, collection, existing_items,
                   final_items, diffVars, calls, exc, excAt, rc, orderVars, saved,
                   found, streak, arg_key, result, refVars, media_type, otherVars>>

NextPoints ==
  \/ CallGetPoints
  \/ CallSetPoints

SpecPoints == InitPoints /\ [][NextPoints]_vars

(***************************************************************************)
(* One call of the newer refresh_collection_with_points, from any initial  *)
(* library and ScoreStore, with library failures and interference.         *)
(***************************************************************************)
StartRefresh == StartRefreshOn(BOOLEAN, BOOLEAN, 1)

NextRefresh ==
  \/ StartRefresh
  \/ Diff
  \/ Apply
  \/ Reorder
  \/ EnvChange

SpecRefresh == Init /\ [][NextRefresh]_vars

(***************************************************************************)
(* One run of the older pipeline (src/helpers), likewise.                  *)
(***************************************************************************)
StartDirect == StartDirectOn(MediaTypes, BOOLEAN, BOOLEAN, 1)

NextDirect ==
  \/ StartDirect
  \/ Diff
  \/ Apply
  \/ Reorder
  \/ FinishDirect
  \/ EnvChange

SpecDirect == Init /\ [][NextDirect]_vars

(***************************************************************************)
(* One teardown / rebuild: apply_collection_state_to_plex called directly  *)
(* or by the refresher, with library failures and interference.            *)
(***************************************************************************)
StartRefresher == StartRefresherOn(BOOLEAN)

NextRebuild ==
  \/ StartApply
  \/ StartRefresher
  \/ Rebuild
  \/ Reorder
  \/ FinishRefresher
  \/ EnvChange

SpecRebuild == Init /\ [][NextRebuild]_vars

(***************************************************************************)
(* Up to MaxRuns consecutive curation runs of one pipeline, the collection *)
(* kept in catalogue order; the refresher, which never writes the          *)
(* ScoreStore, is left out.                                                *)
(***************************************************************************)
StartDirectRuns == StartDirectOn({"movie"}, {FALSE}, BOOLEAN, MaxRuns)

StartDeferredRuns == StartDeferredOn({"movie"}, BOOLEAN, MaxRuns)

FinishDeferredRuns == FinishDeferredOn({FALSE})

NextRuns ==
  \/ StartDirectRuns
  \/ StartDeferredRuns
  \/ Diff
  \/ Apply
  \/ FinishDirect
  \/ FinishDeferredRuns

\* the first run finds no collection, or one with two members
InitRuns == Init /\ (collExists => coll = <<2, 1>>)

SpecRuns == InitRuns /\ [][NextRuns]_vars

(***************************************************************************)
(* Up to MaxRuns consecutive calls of the newer                             *)
(* refresh_collection_with_points on one library, without the reorder.     *)
(***************************************************************************)
StartRefreshRuns == StartRefreshOn({FALSE}, BOOLEAN, MaxRuns)

NextRefreshRuns ==
  \/ StartRefreshRuns
  \/ Diff
  \/ Apply
  \/ EnvChange

SpecRefreshRuns == InitRuns /\ [][NextRefreshRuns]_vars

(***************************************************************************)
(* One run of the newer entry point: the deferred pipeline and, when       *)
(* configured, the embedded refresher.                                     *)
(***************************************************************************)
StartDeferred == StartDeferredOn(MediaTypes, BOOLEAN, 1)

FinishDeferred == FinishDeferredOn(BOOLEAN)

StartEmbedded == StartRefresherOn({FALSE})

NextDeferred ==
  \/ StartDeferred
  \/ FinishDeferred
  \/ StartEmbedded
  \/ Rebuild
  \/ Reorder
  \/ FinishRefresher
  \/ EnvChange

InitDeferred == InitWith(FileStates)

SpecDeferred == InitDeferred /\ [][NextDeferred]_vars

(***************************************************************************)
(* The newer entry points under user interrupts: the refresher on its own  *)
(* (with or without --dry-run), or one curation run with the refresher     *)
(* embedded.                                                               *)
(***************************************************************************)
NextEntry ==
  \/ StartRefresher
  \/ StartDeferred
  \/ FinishDeferred
  \/ Rebuild
  \/ Reorder
  \/ FinishRefresher
  \/ EnvChange
  \/ Interrupt

\* a ScoreStore whose only keys are a clip and an item that left the library
NonMovieFile == [k \in Keys |-> IF k \in {ClipKey, GoneKey} THEN IntV(1) ELSE Absent]

InitEntry == InitFrom(FileStates, SeedFiles \cup {NonMovieFile})

SpecEntry == InitEntry /\ [][NextEntry]_vars

(***************************************************************************)
(* One refresher run overlapping one deferred curation run in another      *)
(* process.  The curation run is reduced to what the refresher can see of  *)
(* it: the file system states its save_points goes through.  A read of the *)
(* refresher (exists(), open, json.load) sees one of these states.         *)
(***************************************************************************)
\* the entries whose text is on disk when the buffer was flushed before key j
PartialFile(m, j) == [k \in Keys |-> IF k < j THEN m[k] ELSE Absent]

\* the variables a step of the curation process leaves alone
readerVars == <<libVars, pc, variant, runs, envCount, envAt, points_data,
                plex_movies, randomize, collection, existing_items, final_items,
                diffVars, calls, exc, excAt, rc, orderVars, saved, found, streak,
                pureVars, refVars, media_type, cacheVars, legacyVars>>

\* run_pipeline up to the end of points_update, on the file and the
\* collection as they are now
WriterCompute ==
  /\ writer.pc = "idle"
  /\ \E pm \in MatchedLists :
       LET f == FetchExisting(collExists, coll)
           b == BuildFinalItems(f.existing_items, pm,
                                LoadPoints(fileState, fileData), 50)
           cl == CleanupPoints(b.points_data)
       IN writer' = [pc |-> IF b.raised \/ cl.raised THEN "ended" ELSE "computed",
                     points |-> IF b.raised \/ cl.raised THEN EmptyMap ELSE cl.m,
                     pre |-> [fileState |-> fileState, fileData |-> fileData]]
  /\ UNCHANGED <<fileVars, readerVars>>

\* save_points: open(path, "w") creates or truncates the file
WriterTruncate ==
  /\ writer.pc = "computed"
  /\ \E ok \in BOOLEAN :
       IF ok
         THEN /\ fileState' = "truncated" /\ fileData' = EmptyMap
              /\ writer' = [writer EXCEPT !.pc = "writing"]
         ELSE /\ UNCHANGED fileVars
              /\ writer' = [writer EXCEPT !.pc = "ended"]
  /\ UNCHANGED readerVars

\* save_points: json.dump has filled the buffer and part of the text is
\* written out
WriterFlush ==
  /\ writer.pc = "writing" /\ fileState = "truncated"
  /\ \E j \in Keys :
       /\ fileState' = "partial"
       /\ fileData' = PartialFile(writer.points, j)
  /\ UNCHANGED <<writer, readerVars>>

\* save_points: the with block ends and the rest of the text is written, or
\* json.dump raised and the exception is logged
WriterClose ==
  /\ writer.pc = "writing"
  /\ \E ok \in BOOLEAN :
       IF ok
         THEN /\ fileState' = "ok" /\ fileData' = writer.points
              /\ writer' = [writer EXCEPT !.pc = "written"]
         ELSE /\ UNCHANGED fileVars
              /\ writer' = [writer EXCEPT !.pc = "ended"]
  /\ UNCHANGED readerVars

StartOverlapped == StartRefresherOn({FALSE})

NextOverlap ==
  \/ WriterCompute
  \/ WriterTruncate
  \/ WriterFlush
  \/ WriterClose
  \/ StartOverlapped
  \/ Rebuild
  \/ Reorder
  \/ FinishRefresher

SpecOverlap == InitWith({"absent", "ok"}) /\ [][NextOverlap]_vars

(***************************************************************************)
(* Properties of one call of refresh_collection_with_points.               *)
(***************************************************************************)
CallsOf(op) == SelectSeq(calls, LAMBDA c : c.op = op)
MovedItems == [i \in DOMAIN CallsOf("move") |-> CallsOf("move")[i].items[1]]
\* the items whose move request raised
FailedSet == {c.items[1] : c \in {d \in SeqToSet(CallsOf("move")) : ~d.ok}}
SortDone == \E i \in DOMAIN calls : calls[i].op = "sort" /\ calls[i].ok
DiffDone == pc \in {"apply", "reorder", "finish", "done"}
              /\ excAt \notin {"fetch", "build", "diff"}
ApplyDone == pc \in {"reorder", "finish", "done"}
               /\ excAt \notin {"fetch", "build", "diff", "apply"}
\* _apply_custom_order has been called and has returned
ReorderDone == pc \in {"finish", "done"} /\ randomize /\ ApplyDone

\* C1: in the newer _apply_custom_order, when the sort-mode update succeeded
\* and every item of the desired list is in the collection, exactly one move
\* request is issued per item, in list order; the function returns without
\* raising; successful_moves = total - |F| and the number of recorded failed
\* moves = |F|, F being the items whose move request raised.
C1_ReorderPartialFailure ==
  (variant = "refresh" /\ ReorderDone /\ SortDone
     /\ SeqToSet(final_items) \subseteq current_collection_items)
  => /\ MovedItems = final_items
     /\ exc = "none"
     /\ successful_moves = Len(final_items) - Cardinality(FailedSet)
     /\ Len(failed_moves) = Cardinality(FailedSet)

C1_Witness ==
  /\ variant = "refresh" /\ ReorderDone /\ SortDone
  /\ SeqToSet(final_items) \subseteq current_collection_items
  /\ Len(final_items) = 3
  /\ FailedSet = {final_items[2]}
  /\ successful_moves = 2 /\ Len(failed_moves) = 1

\* C2: the diff is a set difference by key: to_remove is exactly the current
\* items that are not in the desired list, to_add exactly the desired items
\* that are not in the current collection, whatever the order of either list.
C2_DiffIsSetDifference ==
  (variant = "refresh" /\ DiffDone)
  => /\ SeqToSet(to_remove) = SeqToSet(current) \ SeqToSet(final_items)
     /\ SeqToSet(to_add) = SeqToSet(final_items) \ SeqToSet(current)
     /\ Len(to_remove) = Cardinality(SeqToSet(to_remove))
     /\ Len(to_add) = Cardinality(SeqToSet(to_add))

C2_Witness ==
  /\ variant = "refresh" /\ pc = "apply"
  /\ Len(to_remove) = 1 /\ Len(to_add) = 1
  /\ SeqToSet(current) \cap SeqToSet(final_items) # {}

\* C3: at most one batched remove call, followed by at most one batched add
\* call, each for exactly its set and never for an empty set; when Apply
\* completes each call is issued exactly when its set is non-empty; with
\* identical current and desired key sets no remove and no add is issued.
C3_BatchedApply ==
  variant = "refresh"
  => LET rm == CallsOf("remove")
         ad == CallsOf("add")
     IN /\ Len(rm) <= 1 /\ Len(ad) <= 1
        /\ \A i, j \in DOMAIN calls :
              (calls[i].op = "add" /\ calls[j].op = "remove") => j < i
        /\ Len(rm) = 1 => (to_remove # <<>> /\ rm[1].items = to_remove)
        /\ Len(ad) = 1 => (to_add # <<>> /\ ad[1].items = to_add)
        /\ ApplyDone => /\ (Len(rm) = 1) = (to_remove # <<>>)
                        /\ (Len(ad) = 1) = (to_add # <<>>)
        /\ (DiffDone /\ pc # "apply"
              /\ SeqToSet(current) = SeqToSet(final_items))
             => (rm = <<>> /\ ad = <<>>)

C3_Witness ==
  /\ variant = "refresh" /\ pc = "done" /\ exc = "none"
  /\ plex_movies # <<>> /\ Len(current) = 2
  /\ SeqToSet(current) = SeqToSet(final_items)
  /\ CallsOf("remove") = <<>> /\ CallsOf("add") = <<>>

\* C4: when the collection does not exist at Fetch and to_add is non-empty,
\* the run creates the collection with to_add as its items and completes
\* without error.
C4_CreateWhenMissing ==
  (variant = "refresh" /\ pc \in {"reorder", "done"} /\ DiffDone
     /\ ~collection /\ to_add # <<>> /\ envAt = {}
     /\ \A i \in DOMAIN calls : calls[i].ok)
  => /\ exc = "none"
     /\ collExists
     /\ SeqToSet(coll) = SeqToSet(to_add)

\* C5: the diff is computed against membership re-read after the desired list
\* was built: whenever Apply completes without error on an existing
\* collection and nothing changes the collection after the re-read, the
\* collection's key set equals the desired list's key set, whatever another
\* process did between the first fetch and the re-read.
C5_ConvergesAfterReRead ==
  (variant = "refresh" /\ ApplyDone /\ collection
     /\ envAt \cap {"apply", "reorder"} = {})
  => /\ collExists
     /\ SeqToSet(coll) = SeqToSet(final_items)

C5_Witness ==
  /\ variant = "refresh" /\ ApplyDone /\ collection /\ pc = "done"
  /\ envAt = {"diff"}
  /\ to_remove # <<>> /\ to_add # <<>>
  /\ SeqToSet(current) # SeqToSet(existing_items)

(***************************************************************************)
(* Properties of one run of the older pipeline.                            *)
(***************************************************************************)
\* C6: a failure of the library during Fetch or Apply leaves
\* refresh_collection_with_points and run_pipeline as an exception: no later
\* mutating call is issued, the ScoreStore file keeps its pre-run content and
\* the entry point exits with a non-zero code.
C6_FetchApplyFailureFatal ==
  (variant = "direct" /\ pc = "done" /\ exc = "LibraryError"
     /\ excAt \in {"fetch", "diff", "apply"})
  => /\ rc # 0
     /\ ~saved
     /\ fileState = found.fileState /\ fileData = found.fileData
     /\ \A i \in DOMAIN calls : ~calls[i].ok => i = Len(calls)
     /\ CallsOf("move") = <<>> /\ CallsOf("sort") = <<>>

C6_Witness ==
  /\ variant = "direct" /\ pc = "done" /\ exc = "LibraryError"
  /\ excAt = "apply"
  /\ Len(calls) = 1 /\ calls[1].op = "remove" /\ ~calls[1].ok
  /\ to_add # <<>> /\ randomize
  /\ rc = 2 /\ fileState = "ok"

\* C7: in the older variant a failing move request is not fatal: the moves of
\* the remaining items are still issued, refresh_collection_with_points
\* returns and run_pipeline goes on to save the ScoreStore.
C7_OldReorderNonFatal ==
  (variant = "direct" /\ pc = "done" /\ FailedSet # {})
  => /\ excAt # "reorder"
     /\ MovedItems = final_items

(***************************************************************************)
(* Properties of one teardown / rebuild.                                   *)
(***************************************************************************)
\* apply_collection_state_to_plex was called and returned normally
ApplyReturned ==
  /\ exc = "none"
  /\ \/ variant = "apply" /\ pc = "done"
     \/ variant = "refresher" /\ pc \in {"finish", "done"} /\ ~dry_run
          /\ final_items # <<>>

\* the place of a call in the fixed order
OpRank(op) ==
  CASE op = "remove" -> 1
    [] op \in {"add", "create"} -> 2
    [] op = "sort" -> 3
    [] OTHER -> 4

\* C8: apply_collection_state_to_plex issues its mutating calls in the order
\* remove (all items fetched at the start, skipped when there were none), add
\* of the desired items (create when the collection did not exist), reorder.
\* A key that does not resolve to a movie is never added; after a normal
\* return without interference the collection's key set is exactly the set
\* of input keys that resolve to a movie, and failed_keys holds the
\* unresolved input keys.
C8_TeardownRebuild ==
  variant \in {"apply", "refresher"}
  => LET rm == CallsOf("remove")
         ad == CallsOf("add") \o CallsOf("create")
     IN /\ \A i, j \in DOMAIN calls :
              i < j => OpRank(calls[i].op) <= OpRank(calls[j].op)
        /\ Len(rm) <= 1 /\ Len(ad) <= 1
        /\ Len(rm) = 1 => (existing_items # <<>> /\ rm[1].items = existing_items)
        /\ Len(ad) = 1 => /\ ad[1].items = final_items
                          /\ (ad[1].op = "create") = ~found.collExists
        /\ \A i \in DOMAIN calls :
              calls[i].op \in {"add", "create"}
                => \A k \in SeqToSet(calls[i].items) : ItemType(k) = "movie"
        /\ ApplyReturned
             => /\ (Len(rm) = 1) = (existing_items # <<>>)
                /\ (Len(ad) = 1) = (final_items # <<>>)
                /\ (CallsOf("sort") # <<>>) = (final_items # <<>>)
                /\ SeqToSet(failed_keys)
                     = {k \in SeqToSet(rating_keys) : ItemType(k) = "none"}
                /\ Len(failed_keys)
                     = Cardinality({i \in DOMAIN rating_keys :
                                      ItemType(rating_keys[i]) = "none"})
                /\ envAt = {}
                     => SeqToSet(coll)
                          = {k \in SeqToSet(rating_keys) : ItemType(k) = "movie"}

C8_Witness ==
  /\ variant = "refresher" /\ pc = "done" /\ exc = "none" /\ envAt = {}
  /\ ~dry_run /\ rc = 0
  /\ ClipKey \in SeqToSet(rating_keys) /\ GoneKey \in SeqToSet(rating_keys)
  /\ failed_keys = <<GoneKey>>
  /\ Len(CallsOf("remove")) = 1 /\ Len(CallsOf("add")) = 1
  /\ 3 \in SeqToSet(existing_items)
  /\ SeqToSet(coll) = {1, 2}
  /\ successful_moves = 2

(***************************************************************************)
(* Properties of consecutive curation runs.                                *)
(***************************************************************************)
\* the points persisted for key k
PersistedPoints(k) == GetPoints(LoadPoints(fileState, fileData), k)

\* C9: between runs, a key that had no score and has since been matched once
\* in each of n consecutive runs that completed and saved has persisted
\* points exactly n, in the direct and in the deferred pipeline.
C9_ScoreEvolution ==
  pc \in {"idle", "done"}
  => \A k \in MovieKeys :
        /\ streak[k] > 0 => PersistedPoints(k) = Ret(streak[k])
        /\ streak[k] = 0 => LoadPoints(fileState, fileData)[k] = Absent

C9_Witness ==
  /\ variant = "deferred" /\ pc = "done" /\ runs = 3 /\ rc = 0
  /\ \E k \in MovieKeys : streak[k] = 3 /\ PersistedPoints(k) = Ret(3)

(***************************************************************************)
(* Properties of the ScoreStore accessors.                                 *)
(***************************************************************************)
\* a value that is neither an integer nor a record with a numeric field
Malformed(v) ==
  IF IsObj(v)
    THEN IF v.points # Absent THEN v.points.t \in {"null", "str", "emptystr", "list"}
         ELSE IF v.score # Absent THEN v.score.t \in {"null", "str", "emptystr", "list"}
         ELSE TRUE
    ELSE v.t \in {"null", "str", "emptystr", "list"}

\* C10: _get_points never raises; it returns 0 for an absent key, n for a
\* record {"points": n} or {"score": n}, the integer itself for a bare
\* integer, and 0 for a malformed value, a record whose points or score field
\* is not numeric included.
C10_GetPointsTotal ==
  result.called
  => LET v == points_data[arg_key] IN
     /\ ~result.raised
     /\ v = Absent => result.val = 0
     /\ (IsObj(v) /\ v.points.t = "int") => result.val = v.points.n
     /\ (IsObj(v) /\ v.points = Absent /\ v.score.t = "int")
          => result.val = v.score.n
     /\ (~IsObj(v) /\ v.t = "int") => result.val = v.n
     /\ Malformed(v) => result.val = 0

\* C11: after _set_points(m, k, v), _get_points(m, k) returns v; a record at
\* k keeps every field but points, which becomes v; an absent or non-record
\* value becomes the bare integer v; no other key changes.
C11_SetThenGet ==
  set_call.done
  => LET old == set_call.prior[arg_key]
         new == points_data[arg_key]
     IN /\ result.called => (~result.raised /\ result.val = set_call.val)
        /\ GetPoints(points_data, arg_key) = Ret(set_call.val)
        /\ IsObj(old) => /\ IsObj(new)
                         /\ new.points = IntV(set_call.val)
                         /\ new.score = old.score
                         /\ new.title = old.title
        /\ ~IsObj(old) => new = IntV(set_call.val)
        /\ \A k \in Keys \ {arg_key} : points_data[k] = set_call.prior[k]

C11_Witness ==
  /\ set_call.done /\ result.called /\ arg_key = 1
  /\ set_call.prior[1] = Obj(Absent, BadStr, BadStr)
  /\ set_call.val = 0
  /\ points_data[1] = Obj(IntV(0), BadStr, BadStr)
  /\ result.val = 0 /\ ~result.raised

(***************************************************************************)
(* Properties of one run of the newer entry point.                         *)
(***************************************************************************)
\* run_pipeline of the newer entry point has returned or raised
PipelineEnded == variant = "deferred" /\ pc \in {"done", "refresher"}

\* C12: a ScoreStore persistence failure never propagates: with a points file
\* that is absent, unreadable, not JSON or not a JSON object the run starts
\* from the empty mapping and no exception comes from the mapping; a failing
\* save_points raises nothing; unless the library or the metadata cache
\* fails, run_pipeline reaches its end and the entry point exits 0.
C12_PersistenceFailuresSwallowed ==
  /\ (PipelineEnded /\ media_type = "movie")
       => /\ excAt # "save"
          /\ found.fileState # "ok"
               => /\ excAt \notin {"build", "cleanup"}
                  /\ exc = "none"
                       => KeysOf(points_data) = SeqToSet(plex_movies)
          /\ excAt \notin {"fetch", "build", "cleanup", "cache_save"}
               => /\ exc = "none"
                  /\ pc = "done" => rc = 0
  /\ (variant = "refresher" /\ embedded /\ pc = "done") => rc = 0

C12_Witness ==
  /\ PipelineEnded /\ pc = "done" /\ media_type = "movie"
  /\ found.fileState = "corrupt" /\ fileState = "corrupt"
  /\ plex_movies # <<>> /\ existing_items # <<>>
  /\ ~saved /\ exc = "none" /\ rc = 0

(***************************************************************************)
(* C13: over any sequence of get_tmdb_id calls with non-empty titles, also *)
(* across a save and a reload of the cache file, the title search is sent  *)
(* at most once per title as long as no write of the cache file failed,    *)
(* and never twice by one object; a miss sends the search, stores the      *)
(* result (None included), and when the write succeeds the file holds it   *)
(* and the call returns it; a hit returns the stored value (None included) *)
(* without a search.                                                       *)
(***************************************************************************)
RequestsFor(t) == Cardinality({i \in DOMAIN requests : requests[i].title = t})

C13_SearchOncePerTitle ==
  /\ ~write_failed => \A t \in Titles : RequestsFor(t) <= 1
  /\ \A i, j \in DOMAIN requests : requests[i] = requests[j] => i = j
  /\ (last_get.called /\ last_get.title # EmptyTitle)
       => /\ last_get.hit
               => /\ ~last_get.network /\ ~last_get.raised
                  /\ last_get.val = last_get.stored
                  /\ last_get.val # Absent
          /\ ~last_get.hit
               => /\ last_get.network
                  /\ last_get.stored = last_get.val
                  /\ ~last_get.raised => last_get.persisted = last_get.val
  /\ (last_get.called /\ last_get.gen = cache_gen /\ cache_live
        /\ last_get.title # EmptyTitle)
       => ids[last_get.title] = last_get.val

\* a search that found nothing, saved; a second object loaded the file and
\* answered None for the same title without a search
C13_Witness ==
  /\ ~write_failed /\ cache_gen = 2 /\ cache_live
  /\ requests = <<[title |-> 1, gen |-> 1]>>
  /\ last_get.called /\ last_get.title = 1 /\ last_get.hit
  /\ last_get.gen = 2 /\ last_get.val = Null /\ ~last_get.network

(***************************************************************************)
(* C14: in the filtering variant a candidate with a resolved external id   *)
(* is in the final list iff its updated score is >= 5 or its rating is     *)
(* above 8.0, the final list holds nothing else, and when the library      *)
(* calls succeed the collection is that list; 4 / 9.0 is kept, 4 / 7.0 is  *)
(* removed, 5 / 0.0 is kept and 4 / 8.0 is removed.                        *)
(***************************************************************************)
LegacyCalls == variant = "legacy" /\ pc = "done"

C14_FilterKeepsScoreOrRating ==
  /\ Kept(4, 90) /\ ~Kept(4, 70) /\ Kept(5, 0) /\ ~Kept(4, 80)
  /\ variant = "legacy"
       => /\ \A i \in DOMAIN candidate_tuples :
               LET x == candidate_tuples[i]
               IN /\ tmdb_id_cache[x.movie] = IntV(x.key)
                  /\ x.rating = tmdb_rating_cache[x.key]
                  /\ x.movie \in SeqToSet(final_movies)
                       <=> (x.pts >= 5 \/ x.rating > 80)
          /\ SeqToSet(final_movies) \subseteq
               {candidate_tuples[i].movie : i \in DOMAIN candidate_tuples}
          /\ (LegacyCalls /\ calls # <<>> /\ \A i \in DOMAIN calls : calls[i].ok)
               => SeqToSet(coll) = SeqToSet(final_movies)

\* a score that fell from 5 to 4 with rating 8.0 is dropped while another
\* that fell to 4 with rating 9.0 stays, and the library took the update
C14_Witness ==
  /\ LegacyCalls /\ Len(calls) = 2 /\ \A i \in DOMAIN calls : calls[i].ok
  /\ \E i, j \in DOMAIN candidate_tuples :
       /\ candidate_tuples[i].pts = 4 /\ candidate_tuples[i].rating = 80
       /\ candidate_tuples[i].movie \notin SeqToSet(coll)
       /\ candidate_tuples[j].pts = 4 /\ candidate_tuples[j].rating = 90
       /\ candidate_tuples[j].movie \in SeqToSet(coll)

(***************************************************************************)
(* C15: with --dry-run the refresher makes no mutating library call        *)
(* (remove, add, create, sort-mode update, move) on any path and never     *)
(* enters the rebuild or the reorder; it still loads the ScoreStore and    *)
(* resolves the keys, leaves the ScoreStore file alone, and returns 0      *)
(* unless the points file is missing, the connection fails or the user     *)
(* interrupts.                                                             *)
(***************************************************************************)
C15_DryRunNoMutation ==
  (variant = "refresher" /\ dry_run)
  => /\ calls = <<>>
     /\ pc \notin {"rebuild", "reorder"}
     /\ fileState = found.fileState /\ fileData = found.fileData
     /\ collExists = found.collExists
     /\ points_data = RefresherLoadPoints(found.fileState, found.fileData)
     /\ (KeysOf(points_data) # {} /\ excAt # "connect")
          => /\ SeqToSet(rating_keys) = KeysOf(points_data)
             /\ final_items = ResolveMovies(rating_keys)
             /\ failed_keys = ResolveFailed(rating_keys)
     /\ (pc = "done" /\ found.fileState # "absent"
           /\ excAt \notin {"connect", "interrupt"})
          => rc = 0

\* a dry run over a mapping with keys that resolve and a key that does not,
\* against a collection that a real run would have rebuilt
C15_Witness ==
  /\ variant = "refresher" /\ dry_run /\ pc = "done" /\ rc = 0
  /\ final_items # <<>> /\ failed_keys # <<>>
  /\ collExists /\ coll # <<>> /\ coll # final_items
  /\ calls = <<>>

(***************************************************************************)
(* C16: the refresher's main returns 0 on success, also when the mapping   *)
(* is empty or unreadable or no key resolves to a movie; 1 when the points *)
(* file does not exist or an exception reaches main (connection, section,  *)
(* fetch of the collection, remove/add/create); 130 on a user interrupt,   *)
(* which takes precedence when it comes first; and nothing else.           *)
(***************************************************************************)
RefresherReturned == variant = "refresher" /\ ~embedded /\ pc = "done"

C16_RefresherExitCodes ==
  RefresherReturned
  => /\ rc \in {0, 1, 130}
     /\ rc = 130 <=> exc = "KeyboardInterrupt"
     /\ rc = 1 <=> \/ (exc = "none" /\ found.fileState = "absent")
                   \/ exc \notin {"none", "KeyboardInterrupt"}
     /\ rc = 0 <=> (found.fileState # "absent" /\ exc = "none")
     /\ exc \notin {"none", "KeyboardInterrupt"}
          => excAt \in {"connect", "fetch", "apply"}
     /\ (exc = "none" /\ found.fileState # "absent" /\ KeysOf(points_data) = {})
          => rc = 0
     /\ (exc = "none" /\ rating_keys # <<>> /\ final_items = <<>>) => rc = 0

\* the user interrupted the refresher after its remove and add calls went
\* through and before any move
C16_Witness ==
  /\ RefresherReturned /\ rc = 130 /\ excAt = "interrupt"
  /\ calls # <<>> /\ calls[1].op = "remove" /\ calls[1].ok
  /\ CallsOf("move") = <<>>

(***************************************************************************)
(* C17: a run of the curation entry point with a media kind other than     *)
(* 'movie' is a no-op whatever the configuration: no library call is made, *)
(* the collection, the ScoreStore file and the metadata cache stay as they *)
(* were, and the exit code is 0 unless the user interrupted the run.       *)
(***************************************************************************)
NonMovieRun == media_type # "movie" /\ (variant = "deferred" \/ embedded)

C17_NonMovieNoOp ==
  NonMovieRun
  => /\ calls = <<>>
     /\ pc \notin {"rebuild", "reorder"}
     /\ fileState = found.fileState /\ fileData = found.fileData
     /\ collExists = found.collExists
     /\ cache_file = NoCacheFile
     /\ (pc = "done" /\ excAt # "interrupt") => rc = 0

(***************************************************************************)
(* C18: the curation entry point exits 0 only when no exception and no     *)
(* user interrupt ended any part of the run, the embedded refresher        *)
(* included; an exception gives a non-zero code and an interrupt gives     *)
(* 130.                                                                    *)
(***************************************************************************)
MainReturned == pc = "done" /\ (variant = "deferred" \/ embedded)

C18_ExitCodeReflectsFailures ==
  MainReturned
  => /\ rc = 0 => exc = "none"
     /\ exc = "KeyboardInterrupt" => rc = 130
     /\ exc \notin {"none", "KeyboardInterrupt"} => rc \notin {0, 130}

(***************************************************************************)
(* C19: one call of build_final_items_with_points raises the score of      *)
(* every matched key by exactly 1, however many entries of the matched     *)
(* list carry the key, and leaves every other scored key as it was.        *)
(***************************************************************************)
BuildDone == variant = "build" /\ pc = "done" /\ exc = "none"

PriorPoints(k) ==
  IF fileData[k] = Absent THEN 0 ELSE GetPoints(fileData, k).val

C19_BoostOncePerKey ==
  BuildDone
  => \A k \in Keys :
       /\ k \in SeqToSet(plex_movies)
            => GetPoints(points_data, k) = Ret(PriorPoints(k) + 1)
       /\ (k \notin SeqToSet(plex_movies) /\ fileData[k] # Absent)
            => points_data[k] = fileData[k]

(***************************************************************************)
(* C20: the list build_final_items_with_points returns is ordered by score *)
(* descending and, among items of equal score, by lowercased title         *)
(* ascending.                                                              *)
(***************************************************************************)
C20_ScoreDescTitleAsc ==
  BuildDone
  => \A i, j \in DOMAIN final_items :
       i < j
       => LET pi == GetPoints(points_data, final_items[i]).val
              pj == GetPoints(points_data, final_items[j]).val
          IN \/ pi > pj
             \/ /\ pi = pj
                /\ TitleLower(final_items[i]) <= TitleLower(final_items[j])

(***************************************************************************)
(* C21: the list build_final_items_with_points returns holds each key of   *)
(* (existing items union matched items) exactly once and no other key,     *)
(* whatever max_points is; after the call each such key has an entry in    *)
(* the mapping, and a key that had none holds 0 plus one per matched entry.*)
(***************************************************************************)
BuildKeys == SeqToSet(existing_items) \cup SeqToSet(plex_movies)

C21_AllKeysOnceNoTruncation ==
  BuildDone
  => /\ SeqToSet(final_items) = BuildKeys
     /\ Len(final_items) = Cardinality(BuildKeys)
     /\ \A k \in BuildKeys :
          /\ points_data[k] # Absent
          /\ fileData[k] = Absent
               => points_data[k] = IntV(Count(plex_movies, k))

\* two existing items and two matched ones, one of them new to the mapping
\* and to the collection
C21_Witness ==
  /\ BuildDone /\ existing_items = <<2, 1>> /\ plex_movies = <<3, 2>>
  /\ fileData[3] = Absent /\ fileData[1] # Absent
  /\ Len(final_items) = 3 /\ points_data[3] = IntV(1)

(***************************************************************************)
(* C22: in the filtering variant each run scores every candidate with a    *)
(* resolved external id exactly once, freshly recommended or not: 10 when  *)
(* the mapping has no entry for its key at that moment, max(old - 1, 0)    *)
(* otherwise; other keys are left alone; no score is negative and the      *)
(* score of a key that had an entry does not increase.                     *)
(***************************************************************************)
LoadedAtStart == LegacyLoadPoints(found.fileState, found.fileData)

\* the score the mapping held for the key of tuple i when its turn came:
\* -1 when it had no entry
PriorScore(i) ==
  LET key == candidate_tuples[i].key
      earlier == {j \in 1..(i - 1) : candidate_tuples[j].key = key}
  IN IF earlier # {}
       THEN candidate_tuples[CHOOSE j \in earlier : \A l \in earlier : l <= j].pts
     ELSE IF LoadedAtStart[key] = Absent THEN -1
     ELSE LegacyPoints(LoadedAtStart[key])

TupleKeys == {candidate_tuples[i].key : i \in DOMAIN candidate_tuples}

C22_LegacyScoreUpdate ==
  variant = "legacy"
  => /\ \A i \in DOMAIN candidate_tuples :
          LET x == candidate_tuples[i]
              old == PriorScore(i)
          IN /\ x.pts = IF old = -1 THEN 10
                        ELSE IF old - 1 > 0 THEN old - 1 ELSE 0
             /\ \A j \in DOMAIN candidate_tuples :
                  candidate_tuples[j].movie = x.movie => j = i
     /\ {candidate_tuples[i].movie : i \in DOMAIN candidate_tuples}
          = {y \in SeqToSet(existing_items) \cup SeqToSet(plex_movies) :
               tmdb_id_cache[y] \notin {Absent, Null}}
     /\ \A k \in Keys :
          /\ k \notin TupleKeys => points_data[k] = LoadedAtStart[k]
          /\ k \in TupleKeys
               => \E i \in DOMAIN candidate_tuples :
                    /\ candidate_tuples[i].key = k
                    /\ \A j \in DOMAIN candidate_tuples :
                         candidate_tuples[j].key = k => j <= i
                    /\ points_data[k].points = IntV(candidate_tuples[i].pts)
          /\ points_data[k] # Absent => LegacyPoints(points_data[k]) >= 0
          /\ LoadedAtStart[k] # Absent
               => LegacyPoints(points_data[k]) <= LegacyPoints(LoadedAtStart[k])
          /\ (fileState = "ok" /\ fileData[k] # Absent)
               => LegacyPoints(LegacyLoadPoints(fileState, fileData)[k]) >= 0
     /\ saved => (fileState = "ok" /\ fileData = points_data)

\* third run: a member scored 10 two runs ago falls to 8 without being
\* recommended, while a newly recommended item enters at 10
C22_Witness ==
  /\ variant = "legacy" /\ pc = "done" /\ runs = 3 /\ saved
  /\ \E i, j \in DOMAIN candidate_tuples :
       /\ candidate_tuples[i].movie \notin SeqToSet(plex_movies)
       /\ PriorScore(i) = 9 /\ candidate_tuples[i].pts = 8
       /\ candidate_tuples[j].movie \in SeqToSet(plex_movies)
       /\ PriorScore(j) = -1 /\ candidate_tuples[j].pts = 10

(***************************************************************************)
(* C23: in the deferred pipeline the mapping handed to save_points holds   *)
(* no key whose points are <= 0: every key at <= 0 after the score update  *)
(* has been deleted, every key at >= 1 is kept with its entry, and a       *)
(* successful save writes exactly that mapping.                            *)
(***************************************************************************)
\* the mapping as build_final_items_with_points left it in this run
AfterScoreUpdate ==
  BuildFinalItems(existing_items, plex_movies,
                  LoadPoints(found.fileState, found.fileData), 50).points_data

HandedToSave ==
  /\ variant = "deferred" /\ media_type = "movie"
  /\ \/ pc = "finish" /\ exc = "none"
     \/ pc \in {"done", "refresher"} /\ saved

C23_CleanupBeforeSave ==
  HandedToSave
  => /\ \A k \in Keys :
          /\ points_data[k] # Absent => GetPoints(points_data, k).val >= 1
          /\ AfterScoreUpdate[k] # Absent
               => IF GetPoints(AfterScoreUpdate, k).val <= 0
                    THEN points_data[k] = Absent
                    ELSE points_data[k] = AfterScoreUpdate[k]
          /\ AfterScoreUpdate[k] = Absent => points_data[k] = Absent
     /\ saved => (fileState = "ok" /\ fileData = points_data)

\* a member without entry that was not matched is dropped at 0 while a
\* matched item is kept, and the result is on disk
C23_Witness ==
  /\ HandedToSave /\ saved
  /\ \E k, j \in MovieKeys :
       /\ k \in SeqToSet(existing_items) /\ found.fileData[k] = Absent
       /\ AfterScoreUpdate[k] = IntV(0) /\ fileData[k] = Absent
       /\ j \in SeqToSet(plex_movies) /\ fileData[j] # Absent
       /\ GetPoints(fileData, j).val >= 1

(***************************************************************************)
(* C24: in the newer _apply_custom_order every move request is anchored    *)
(* on the item of the most recent successful move of this reorder, or on   *)
(* the head when none succeeded yet; the requests follow the desired list, *)
(* a failed move or a skipped item leaves the anchor alone, and an anchor  *)
(* is always an item found in the collection, so it is never reset.        *)
(***************************************************************************)
\* the anchor the loop holds when it issues move request i: 0 is the head
LastSucceeded(i) ==
  LET M == CallsOf("move")
      done == {j \in 1..(i - 1) : M[j].ok}
  IN IF done = {} THEN 0
     ELSE M[CHOOSE j \in done : \A l \in done : l <= j].items[1]

\* the positions in the desired list of the items a request was issued for
RECURSIVE IsSubsequence(_, _)
IsSubsequence(a, b) ==
  IF a = <<>> THEN TRUE
  ELSE IF b = <<>> THEN FALSE
  ELSE IF Head(a) = Head(b) THEN IsSubsequence(Tail(a), Tail(b))
  ELSE IsSubsequence(a, Tail(b))

C24_AnchorIsLastSuccess ==
  (variant \in {"refresh", "refresher"} /\ pc \in {"finish", "done"})
  => /\ \A i \in DOMAIN CallsOf("move") :
          /\ CallsOf("move")[i].after = LastSucceeded(i)
          /\ LastSucceeded(i) # 0 => LastSucceeded(i) \in current_collection_items
     /\ IsSubsequence(MovedItems, final_items)
     /\ \A x \in SeqToSet(final_items) :
          x \notin current_collection_items => x \notin SeqToSet(MovedItems)

\* the first move succeeds, the second fails, the third is anchored on the
\* first
C24_Witness ==
  /\ variant \in {"refresh", "refresher"} /\ pc \in {"finish", "done"}
  /\ Len(CallsOf("move")) = 3
  /\ CallsOf("move")[1].ok /\ ~CallsOf("move")[2].ok /\ CallsOf("move")[3].ok
  /\ CallsOf("move")[3].after = CallsOf("move")[1].items[1]

(***************************************************************************)
(* C25: in the diff-based reconciler, when nobody changes the collection   *)
(* between the first fetch and the re-read, the desired list contains      *)
(* every existing member, to_remove is empty and no remove call is issued; *)
(* a run in which nobody else touches the collection ends with every       *)
(* member it found still a member, so membership only grows run after run. *)
(***************************************************************************)
C25_NeverRemoves ==
  (variant = "refresh" /\ DiffDone /\ "diff" \notin envAt)
  => /\ SeqToSet(existing_items) \subseteq SeqToSet(final_items)
     /\ current = existing_items
     /\ to_remove = <<>>
     /\ CallsOf("remove") = <<>>
     /\ envAt = {}
          => /\ SeqToSet(existing_items) \subseteq SeqToSet(coll)
             /\ (pc = "done" /\ exc = "none")
                  => SeqToSet(coll) = SeqToSet(existing_items)
                                        \cup SeqToSet(plex_movies)

\* a later run finds two members and adds a third
C25_Witness ==
  /\ variant = "refresh" /\ pc = "done" /\ exc = "none" /\ runs >= 2
  /\ envAt = {} /\ Len(existing_items) = 2 /\ Len(to_add) = 1
  /\ to_remove = <<>> /\ Len(coll) = 3

(***************************************************************************)
(* C26: when the newer _apply_custom_order has returned, the items whose   *)
(* move succeeded are the first items of the collection, in the order they *)
(* have in the desired list, whatever moves failed; when every item of the *)
(* desired list was moved the collection starts with the desired list and, *)
(* having no other member, equals it.                                      *)
(***************************************************************************)
\* the items whose move request succeeded, in request order
SucceededItems ==
  LET M == SelectSeq(CallsOf("move"), LAMBDA c : c.ok)
  IN [i \in DOMAIN M |-> M[i].items[1]]

C26_SucceededFormPrefix ==
  (variant = "refresh" /\ ReorderDone)
  => /\ IsSubsequence(SucceededItems, final_items)
     /\ Len(SucceededItems) <= Len(coll)
     /\ SubSeq(coll, 1, Len(SucceededItems)) = SucceededItems
     /\ successful_moves = Len(SucceededItems)
     /\ (successful_moves = Len(final_items)
           /\ SeqToSet(coll) = SeqToSet(final_items))
          => coll = final_items

\* the second of three moves fails: the first and the third item lead the
\* collection and the second stays behind them
C26_Witness ==
  /\ variant = "refresh" /\ ReorderDone /\ Len(final_items) = 3
  /\ FailedSet = {final_items[2]}
  /\ coll = <<final_items[1], final_items[3], final_items[2]>>
  /\ existing_items = <<final_items[2], final_items[1], final_items[3]>>

(***************************************************************************)
(* C27: in the filtering variant, with the ScoreStore written intact after *)
(* every run, an item that some run has scored below 5 is scored below 5   *)
(* by every later run too, recommended again or not, and whenever its      *)
(* rating is <= 8 it is left out of the list handed to the library and is  *)
(* not a member of the collection that run leaves; its entry stays in the  *)
(* ScoreStore.                                                             *)
(***************************************************************************)
C27_LowScoreStaysExcluded ==
  variant = "legacy"
  => \A i \in DOMAIN candidate_tuples :
       LET x == candidate_tuples[i]
       IN x.movie \in low_scored
            => /\ x.pts < 5
               /\ points_data[x.key] # Absent
               /\ LegacyPoints(points_data[x.key]) < 5
               /\ saved => fileData[x.key] = points_data[x.key]
               /\ x.rating <= 80
                    => /\ x.movie \notin SeqToSet(final_movies)
                       /\ (pc = "done" /\ \A c \in DOMAIN calls : calls[c].ok)
                            => x.movie \notin SeqToSet(coll)

\* title 3 entered at 5: the third run scores it 2 although it is recommended
\* for the third time, and leaves it out
C27_Witness ==
  /\ variant = "legacy" /\ pc = "done" /\ runs = 3 /\ saved
  /\ plex_movies = <<3>> /\ 3 \in low_scored
  /\ \E i \in DOMAIN candidate_tuples :
       /\ candidate_tuples[i].movie = 3 /\ candidate_tuples[i].pts = 2
       /\ candidate_tuples[i].rating = 70
  /\ 3 \notin SeqToSet(coll) /\ coll # <<>>

(***************************************************************************)
(* C28: in the deferred pipeline a member of the live collection that has  *)
(* no ScoreStore entry and is not matched in the run is scored 0 and its   *)
(* key deleted in the same run, although it is in the desired list; and    *)
(* when the embedded refresher that follows a curation run has returned    *)
(* without error or interference, every member of the collection has       *)
(* persisted points >= 1.                                                  *)
(***************************************************************************)
\* a member the curation run found without entry and did not match
NeverMatched(k) ==
  /\ k \in SeqToSet(existing_items)
  /\ LoadPoints(found.fileState, found.fileData)[k] = Absent
  /\ k \notin SeqToSet(plex_movies)

\* the ScoreStore file as a completed deferred run leaves it
CleanStore ==
  /\ fileState = "ok"
  /\ \A k \in KeysOf(fileData) : /\ ~GetPoints(fileData, k).raised
                                   /\ GetPoints(fileData, k).val >= 1

C28_ScoredZeroAndDropped ==
  HandedToSave
  => \A k \in Keys :
       NeverMatched(k)
         => /\ AfterScoreUpdate[k] = IntV(0)
            /\ k \in SeqToSet(final_items)
            /\ points_data[k] = Absent
            /\ saved => fileData[k] = Absent

C28_RefresherDropsUnscored ==
  /\ C28_ScoredZeroAndDropped
  /\ (variant = "refresher" /\ embedded /\ media_type = "movie"
        /\ pc = "done" /\ exc = "none" /\ envAt = {} /\ CleanStore)
     => \A k \in SeqToSet(coll) :
          /\ fileData[k] # Absent
          /\ GetPoints(fileData, k).val >= 1

(***************************************************************************)
(* C29: in apply_collection_state_to_plex a failed remove-all is the last  *)
(* library call of the run and its exception is re-raised; a failed add or *)
(* create is re-raised too, no reorder follows, and when the remove-all    *)
(* before it succeeded the collection is left empty; the refresher's main  *)
(* then returns 1.                                                         *)
(***************************************************************************)
C29_RebuildFailureNotRolledBack ==
  variant = "refresher"
  => LET rm == CallsOf("remove")
         ad == CallsOf("add") \o CallsOf("create")
     IN /\ (rm # <<>> /\ ~rm[1].ok)
             => /\ Len(calls) = 1
                /\ exc = "LibraryError" /\ excAt = "apply"
                /\ pc \in {"finish", "done"}
                /\ envAt = {} => (collExists /\ coll = existing_items)
        /\ (ad # <<>> /\ ~ad[1].ok)
             => /\ CallsOf("sort") = <<>> /\ CallsOf("move") = <<>>
                /\ calls[Len(calls)] = ad[1]
                /\ exc = "LibraryError" /\ excAt = "apply"
                /\ pc \in {"finish", "done"}
                /\ rm # <<>> => rm[1].ok
                /\ (rm # <<>> /\ envAt = {}) => (collExists /\ coll = <<>>)
        /\ (pc = "done" /\ excAt = "apply")
             => rc = ReportedCode(embedded, 1)
        /\ (pc = "done" /\ excAt = "apply" /\ ~embedded) => rc = 1

\* the stand-alone refresher removed two members, its add failed, and it
\* returned 1 with the collection empty
C29_Witness ==
  /\ variant = "refresher" /\ ~embedded /\ pc = "done" /\ rc = 1
  /\ Len(existing_items) = 2 /\ final_items # <<>>
  /\ Len(calls) = 2 /\ calls[1].op = "remove" /\ calls[1].ok
  /\ calls[2].op = "add" /\ ~calls[2].ok
  /\ collExists /\ coll = <<>> /\ envAt = {}

(***************************************************************************)
(* C30: when a refresher run overlaps a deferred curation run whose        *)
(* save_points truncates and rewrites the ScoreStore file, the mapping the *)
(* refresher works from is the whole pre-run mapping or the whole post-run *)
(* mapping and its desired membership the key set of that mapping, never a *)
(* mixture; when its read sees the truncated or partly written file the    *)
(* mapping is empty, no library call is made and main returns 0.           *)
(***************************************************************************)
\* the ScoreStore file as the curation run found it
PreRun ==
  IF writer.pc = "idle" THEN [fileState |-> fileState, fileData |-> fileData]
  ELSE writer.pre

RefresherHasRead == variant = "refresher" /\ pc # "idle"

ReadInsideWrite == found.fileState \in {"truncated", "partial"}

C30_OverlapReadsWholeMapping ==
  RefresherHasRead
  => /\ \/ /\ found.fileState = PreRun.fileState
           /\ found.fileData = PreRun.fileData
           /\ points_data = LoadPoints(PreRun.fileState, PreRun.fileData)
        \/ /\ writer.pc = "written"
           /\ found.fileState = "ok"
           /\ points_data = writer.points
        \/ /\ ReadInsideWrite
           /\ writer.pc \notin {"idle", "computed"}
           /\ points_data = EmptyMap
     /\ rating_keys # <<>> => SeqToSet(rating_keys) = KeysOf(points_data)
     /\ SeqToSet(final_items) \subseteq KeysOf(points_data)
     /\ ReadInsideWrite
          => /\ calls = <<>> /\ rating_keys = <<>>
             /\ pc \in {"finish", "done"}
             /\ exc = "none"
             /\ collExists = found.collExists
             /\ pc = "done" => rc = 0

\* the refresher read the partly written file, which held an entry of the
\* new mapping, and returned 0 without touching a collection with members
C30_Witness ==
  /\ RefresherHasRead /\ pc = "done" /\ rc = 0
  /\ found.fileState = "partial" /\ KeysOf(found.fileData) # {}
  /\ KeysOf(PreRun.fileData) # {} /\ KeysOf(writer.points) # {}
  /\ coll # <<>> /\ calls = <<>>

=============================================================================
